---------------------------- MODULE Spec2Model ----------------------------
(***************************************************************************)
(* A model of the santa-platformer simulation: the player state machine    *)
(* (player.py), the axis-separated collision resolver (collision.py), the  *)
(* enemy patrol (enemy.py), the level manager (level.py) and the PLAYING   *)
(* branch of the game loop (main.py).                                      *)
(*                                                                         *)
(* Numbers.  Python floats (player.x, player.y, vx, vy, speed, enemy       *)
(* speed) are kept as fixed-point integers with Scale units per pixel;     *)
(* every float the program computes from its constants (0.6, 1.8, 0.85,    *)
(* 1.25, 1.5 ...) is a multiple of 1/Scale.  int() and the float -> int    *)
(* conversion of pygame.Rect attributes truncate toward zero (Trunc).      *)
(* Rect coordinates and all times (milliseconds) are plain integers.       *)
(***************************************************************************)
EXTENDS Integers, Sequences, FiniteSets, TLC

(***************************************************************************)
(* Program constants                                                       *)
(***************************************************************************)
Scale == 1000                       \* fixed-point units per pixel (floats)

BASE_WIDTH == 800                   \* constants.py
BASE_HEIGHT == 600
GRAVITY == (6 * Scale) \div 10      \* 0.6 px/frame^2
MAX_FALL == 15 * Scale              \* terminal velocity
BASE_SPEED == 5 * Scale
BASE_JUMP == (-13) * Scale
LEVEL_COMPLETE_DELAY == 3000
RESPAWN_INVINCIBLE_TIME == 1200
\* COYOTE_TIME is imported by player.py from constants.py, which does not
\* define it; the value is the one the specification suggests (80..150 ms).
COYOTE_TIME == 100

PLAYER_W == 40                      \* Player.__init__: self.w, self.h
PLAYER_H == 60

PowerupTypes == {"speed_boost", "double_jump", "invincibility"}

POWERUP_DURATIONS ==
    [speed_boost |-> 8000, double_jump |-> 15000, invincibility |-> 6000]

\* settings.py DIFFICULTY_PRESETS; the multipliers are in percent.
DIFFICULTY_PRESETS ==
    [Easy   |-> [lives |-> 5, enemy_speed_mult |-> 85,  powerup_mult |-> 125],
     Normal |-> [lives |-> 3, enemy_speed_mult |-> 100, powerup_mult |-> 100],
     Hard   |-> [lives |-> 2, enemy_speed_mult |-> 125, powerup_mult |-> 85]]

(***************************************************************************)
(* Arithmetic helpers                                                      *)
(***************************************************************************)
Abs(n) == IF n < 0 THEN -n ELSE n

Min(a, b) == IF a < b THEN a ELSE b

Max(a, b) == IF a > b THEN a ELSE b

\* int(f) of a float f held as fixed point v: truncation toward zero.
Trunc(v) == IF v >= 0 THEN v \div Scale ELSE -((-v) \div Scale)

\* float(n) of an integer n.
Fx(n) == n * Scale

(***************************************************************************)
(* pygame.Rect                                                             *)
(***************************************************************************)
Rect(x, y, w, h) == [x |-> x, y |-> y, w |-> w, h |-> h]

\* Rect.colliderect: strict overlap on both axes.
CollideRect(a, b) ==
    /\ a.x < b.x + b.w
    /\ a.x + a.w > b.x
    /\ a.y < b.y + b.h
    /\ a.y + a.h > b.y

(***************************************************************************)
(* Player (player.py)                                                      *)
(***************************************************************************)
\* Player.__init__.  The animation fields and facing_right only feed the
\* renderer and are left out.
NewPlayer(start_x, start_y) ==
    [ rx |-> start_x, ry |-> start_y,          \* self.rect (w, h are fixed)
      x |-> Fx(start_x), y |-> Fx(start_y),
      vx |-> 0, vy |-> 0,
      speed |-> BASE_SPEED,
      max_jumps |-> 1,
      jumps_remaining |-> 1,
      last_ground_time |-> 0,
      on_ground |-> FALSE,
      power_until |-> [speed_boost |-> 0, double_jump |-> 0, invincibility |-> 0],
      hit_invincible_until |-> 0 ]

PlayerRect(p) == Rect(p.rx, p.ry, PLAYER_W, PLAYER_H)

\* A plausible slip: only the powerup counts, the respawn window is forgotten.
IsInvincibleNoHitWindow(p, now_ms) ==
    now_ms < p.power_until.invincibility

IsInvincible(p, now_ms) ==
    now_ms < p.power_until.invincibility \/ now_ms < p.hit_invincible_until

\* A plausible slip: the boost still counts at the instant of expiry (<=).
UpdatePowerupsInclusive(p, now_ms) ==
    [p EXCEPT
       !.speed = IF now_ms <= p.power_until.speed_boost
                 THEN (BASE_SPEED * 18) \div 10 ELSE BASE_SPEED,
       !.max_jumps = IF now_ms <= p.power_until.double_jump THEN 2 ELSE 1]

UpdatePowerups(p, now_ms) ==
    [p EXCEPT
       !.speed = IF now_ms < p.power_until.speed_boost
                 THEN (BASE_SPEED * 18) \div 10 ELSE BASE_SPEED,
       !.max_jumps = IF now_ms < p.power_until.double_jump THEN 2 ELSE 1]

ApplyPowerup(p, ptype, duration_ms, now_ms) ==
    LET q == [p EXCEPT !.power_until[ptype] = now_ms + duration_ms]
    IN  IF ptype = "double_jump"
        THEN [q EXCEPT !.jumps_remaining =
                 IF now_ms < q.power_until.double_jump
                 THEN q.max_jumps ELSE q.jumps_remaining]
        ELSE q

\* Player.respawn; ticks is the value pygame.time.get_ticks() returns there.
Respawn(p, start_x, start_y, ticks) ==
    [p EXCEPT
       !.x = Fx(start_x), !.y = Fx(start_y),
       !.rx = start_x, !.ry = start_y,
       !.vx = 0, !.vy = 0,
       !.hit_invincible_until = ticks + RESPAWN_INVINCIBLE_TIME,
       !.last_ground_time = 0,
       !.on_ground = FALSE]

\* A plausible slip: the double-jump branch forgets the jumps_remaining test.
CanJumpNoCount(p, current_time) ==
    IF p.on_ground THEN p.jumps_remaining > 0
    ELSE IF current_time - p.last_ground_time <= COYOTE_TIME
         THEN p.jumps_remaining > 0
    ELSE p.max_jumps > 1

CanJump(p, current_time) ==
    IF p.jumps_remaining <= 0 THEN FALSE
    ELSE IF p.on_ground THEN TRUE
    ELSE IF current_time - p.last_ground_time <= COYOTE_TIME THEN TRUE
    ELSE IF p.max_jumps > 1 THEN TRUE
    ELSE FALSE

\* A plausible slip: the jump is performed without asking can_jump.
JumpKeyNoTest(p, now_ms) ==
    [p EXCEPT !.vy = BASE_JUMP, !.jumps_remaining = p.jumps_remaining - 1]

\* main.py 335-337: one jump KEYDOWN event.
JumpKey(p, now_ms) ==
    IF CanJump(p, now_ms)
    THEN [p EXCEPT !.vy = BASE_JUMP, !.jumps_remaining = p.jumps_remaining - 1]
    ELSE p

(***************************************************************************)
(* Collision resolver (collision.py)                                       *)
(***************************************************************************)
\* One iteration of the loop of resolve_horizontal.
\* A plausible slip: the horizontal correction also stops the player.
HorizontalStepStop(p, plat) ==
    IF CollideRect(PlayerRect(p), plat)
    THEN LET rx2 == IF p.vx > 0 THEN plat.x - PLAYER_W
                    ELSE IF p.vx < 0 THEN plat.x + plat.w
                    ELSE p.rx
         IN  [p EXCEPT !.rx = rx2, !.x = Fx(rx2), !.vx = 0]
    ELSE p

HorizontalStep(p, plat) ==
    IF CollideRect(PlayerRect(p), plat)
    THEN LET rx2 == IF p.vx > 0 THEN plat.x - PLAYER_W
                    ELSE IF p.vx < 0 THEN plat.x + plat.w
                    ELSE p.rx
         IN  [p EXCEPT !.rx = rx2, !.x = Fx(rx2)]
    ELSE p

\* A plausible slip: the loop stops at the first colliding platform (break).
RECURSIVE HorizontalLoopBreak(_, _, _)
HorizontalLoopBreak(p, platforms, i) ==
    IF i > Len(platforms) THEN p
    ELSE IF CollideRect(PlayerRect(p), platforms[i])
         THEN HorizontalStep(p, platforms[i])
         ELSE HorizontalLoopBreak(p, platforms, i + 1)

\* resolve_horizontal 4-10: the loop over all platforms.
RECURSIVE HorizontalLoop(_, _, _)
HorizontalLoop(p, platforms, i) ==
    IF i > Len(platforms) THEN p
    ELSE HorizontalLoop(HorizontalStep(p, platforms[i]), platforms, i + 1)

ResolveHorizontal(p, platforms) ==
    HorizontalLoop([p EXCEPT !.rx = Trunc(p.x)], platforms, 1)

\* One iteration of the loop of resolve_vertical on the pair
\* (player, on_ground); on_ground is the function's local variable.
VerticalStep(s, plat) ==
    LET p == s.p
    IN  IF CollideRect(PlayerRect(p), plat)
        THEN IF p.vy > 0
             THEN [p |-> [p EXCEPT !.ry = plat.y - PLAYER_H, !.vy = 0,
                                   !.y = Fx(plat.y - PLAYER_H),
                                   !.jumps_remaining = p.max_jumps],
                   on_ground |-> TRUE]
             ELSE IF p.vy < 0
             THEN [p |-> [p EXCEPT !.ry = plat.y + plat.h, !.vy = 0,
                                   !.y = Fx(plat.y + plat.h)],
                   on_ground |-> s.on_ground]
             ELSE s
        ELSE s

RECURSIVE VerticalLoop(_, _, _)
VerticalLoop(s, platforms, i) ==
    IF i > Len(platforms) THEN s
    ELSE VerticalLoop(VerticalStep(s, platforms[i]), platforms, i + 1)

\* resolve_vertical: the record holds the mutated player and the returned flag.
ResolveVertical(p, platforms) ==
    VerticalLoop([p |-> [p EXCEPT !.ry = Trunc(p.y)], on_ground |-> FALSE],
                 platforms, 1)

\* A plausible slip: the bottom bound is treated like the other three
\* (position only).
ClampPlayerToLevelPositionOnly(p, level_width, level_height) ==
    LET p1 == IF p.rx < 0 THEN [p EXCEPT !.rx = 0, !.x = 0] ELSE p
        p2 == IF p1.rx + PLAYER_W > level_width
              THEN [p1 EXCEPT !.rx = level_width - PLAYER_W,
                              !.x = Fx(level_width - PLAYER_W)]
              ELSE p1
        p3 == IF p2.ry < 0 THEN [p2 EXCEPT !.ry = 0, !.y = 0] ELSE p2
        p4 == IF p3.ry + PLAYER_H > level_height
              THEN [p3 EXCEPT !.ry = level_height - PLAYER_H,
                              !.y = Fx(level_height - PLAYER_H)]
              ELSE p3
    IN  [p4 EXCEPT !.rx = Trunc(p4.x), !.ry = Trunc(p4.y)]

\* clamp_player_to_level.
ClampPlayerToLevel(p, level_width, level_height) ==
    LET p1 == IF p.rx < 0 THEN [p EXCEPT !.rx = 0, !.x = 0] ELSE p
        p2 == IF p1.rx + PLAYER_W > level_width
              THEN [p1 EXCEPT !.rx = level_width - PLAYER_W,
                              !.x = Fx(level_width - PLAYER_W)]
              ELSE p1
        p3 == IF p2.ry < 0 THEN [p2 EXCEPT !.ry = 0, !.y = 0] ELSE p2
        p4 == IF p3.ry + PLAYER_H > level_height
              THEN [p3 EXCEPT !.ry = level_height - PLAYER_H,
                              !.y = Fx(level_height - PLAYER_H),
                              !.vy = 0,
                              !.jumps_remaining = p3.max_jumps]
              ELSE p3
    IN  [p4 EXCEPT !.rx = Trunc(p4.x), !.ry = Trunc(p4.y)]

(***************************************************************************)
(* Enemy (enemy.py)                                                        *)
(***************************************************************************)
\* Enemy.__init__; speed and vx are fixed point, rect.x is an integer.
NewEnemy(x, y, w, h, patrol_min_x, patrol_max_x, speed) ==
    [ x |-> x, y |-> y, w |-> w, h |-> h,
      vx |-> speed,
      patrol_min |-> patrol_min_x,
      patrol_max |-> patrol_max_x,
      speed |-> speed ]

EnemyRect(e) == Rect(e.x, e.y, e.w, e.h)

\* A plausible slip: the upper bound is tested but the position not clamped.
EnemyUpdateNoClamp(e) ==
    LET x1 == Trunc(Fx(e.x) + e.vx)
    IN  IF x1 < e.patrol_min
        THEN [e EXCEPT !.x = e.patrol_min, !.vx = Abs(e.speed)]
        ELSE IF x1 > e.patrol_max
        THEN [e EXCEPT !.x = x1, !.vx = -Abs(e.speed)]
        ELSE [e EXCEPT !.x = x1]

\* A plausible slip: the direction is reversed on reaching a bound (>=, <=).
EnemyUpdateEager(e) ==
    LET x1 == Trunc(Fx(e.x) + e.vx)
    IN  IF x1 <= e.patrol_min
        THEN [e EXCEPT !.x = e.patrol_min, !.vx = Abs(e.speed)]
        ELSE IF x1 >= e.patrol_max
        THEN [e EXCEPT !.x = e.patrol_max, !.vx = -Abs(e.speed)]
        ELSE [e EXCEPT !.x = x1]

\* Enemy.update: rect.x += vx stores the truncated sum.
EnemyUpdate(e) ==
    LET x1 == Trunc(Fx(e.x) + e.vx)
    IN  IF x1 < e.patrol_min
        THEN [e EXCEPT !.x = e.patrol_min, !.vx = Abs(e.speed)]
        ELSE IF x1 > e.patrol_max
        THEN [e EXCEPT !.x = e.patrol_max, !.vx = -Abs(e.speed)]
        ELSE [e EXCEPT !.x = x1]


\* load_level 222-227: difficulty scaling of one enemy (mult in percent).
ScaleEnemy(e, mult) ==
    IF mult = 100 THEN e
    ELSE LET sp == (e.speed * mult) \div 100
         IN  [e EXCEPT !.speed = sp, !.vx = IF e.vx >= 0 THEN sp ELSE -sp]

(***************************************************************************)
(* Camera (camera.py)                                                      *)
(***************************************************************************)
\* A plausible slip: the lower clamp max(0, ...) is missing.
CameraUpdateNoFloor(player_rect, level_width, level_height) ==
    LET cx == (player_rect.x + player_rect.w \div 2) - BASE_WIDTH \div 2
        cy == (player_rect.y + player_rect.h \div 2) - BASE_HEIGHT \div 2
    IN  [x |-> Min(level_width - BASE_WIDTH, cx),
         y |-> Min(level_height - BASE_HEIGHT, cy)]

CameraUpdate(player_rect, level_width, level_height) ==
    LET cx == (player_rect.x + player_rect.w \div 2) - BASE_WIDTH \div 2
        cy == (player_rect.y + player_rect.h \div 2) - BASE_HEIGHT \div 2
    IN  [x |-> Max(0, Min(level_width - BASE_WIDTH, cx)),
         y |-> Max(0, Min(level_height - BASE_HEIGHT, cy))]

(***************************************************************************)
(* Campaign data: the level documents handed to LevelManager.  Two small   *)
(* levels in the format of level.py's _default_campaign.                   *)
(*   Level 1: the player starts resting on the ground under a low block,   *)
(*   with the goal at its feet; two presents and a double_jump powerup lie *)
(*   one and two steps to the right.                                       *)
(*   Level 2: no presents; an enemy patrols the ground on the right, where *)
(*   an invincibility powerup and the goal are.                            *)
(*   Level 3: an enemy that does not move lies along the whole ground, so  *)
(*   the player touches it where it is spawned; the goal is out of reach.  *)
(***************************************************************************)
Levels ==
    << [ width |-> 50, height |-> 120,
         player_start |-> <<0, 40>>,
         goal |-> Rect(0, 90, 2, 10),
         ground |-> Rect(0, 100, 50, 20),
         platforms |-> << Rect(0, 25, 5, 10) >>,
         presents |-> << Rect(40, 80, 5, 10), Rect(45, 70, 5, 5) >>,
         powerups |-> << [rect |-> Rect(45, 60, 5, 10), type |-> "double_jump"] >>,
         enemies |-> << >>,
         checkpoints |-> << >>, events |-> << >>, interludes |-> << >> ],
       [ width |-> 50, height |-> 120,
         player_start |-> <<0, 40>>,
         goal |-> Rect(48, 90, 2, 10),
         ground |-> Rect(0, 100, 50, 20),
         platforms |-> << >>,
         presents |-> << >>,
         powerups |-> << [rect |-> Rect(45, 60, 5, 10), type |-> "invincibility"] >>,
         enemies |-> << <<44, 90, 4, 10, 44, 46, Fx(2)>> >>,
         checkpoints |-> << >>, events |-> << >>, interludes |-> << >> ],
       [ width |-> 50, height |-> 120,
         player_start |-> <<0, 40>>,
         goal |-> Rect(48, 110, 2, 10),
         ground |-> Rect(0, 100, 50, 20),
         platforms |-> << >>,
         presents |-> << >>,
         powerups |-> << >>,
         enemies |-> << <<0, 90, 50, 10, 0, 0, 0>> >>,
         checkpoints |-> << >>, events |-> << >>, interludes |-> << >> ] >>

\* Python's None.
None == [none |-> TRUE]

(***************************************************************************)
(* A campaign of one level with checkpoints, scripted events and a story   *)
(* interlude.  The player starts at the left edge, one step (5 px) from    *)
(* the first present and from the second checkpoint of the list, two steps *)
(* from the second present, the first checkpoint and an enemy that does    *)
(* not move.  Both checkpoints carry the id "a".  The events spawn a       *)
(* platform above the player's head and a speed_boost powerup one step to  *)
(* the right.  The goal is out of reach.                                   *)
(***************************************************************************)
StoryLevels ==
    << [ width |-> 50, height |-> 120,
         player_start |-> <<0, 40>>,
         goal |-> Rect(48, 110, 2, 10),
         ground |-> Rect(0, 100, 50, 20),
         platforms |-> << >>,
         presents |-> << Rect(40, 80, 5, 10), Rect(46, 80, 4, 10) >>,
         powerups |-> << >>,
         enemies |-> << <<49, 90, 1, 10, 49, 49, 0>> >>,
         checkpoints |->
             << [ id |-> "a", rect |-> Rect(47, 80, 3, 10),
                  respawn |-> <<10, 40>>, story |-> "" ],
                [ id |-> "a", rect |-> Rect(42, 80, 3, 10),
                  respawn |-> <<5, 40>>, story |-> "talk" ] >>,
         events |->
             << [ trigger |-> << "presents_collected", "1" >>,
                  effect |-> "spawn_platforms",
                  payload |-> [platforms |-> << Rect(0, 30, 50, 5) >>],
                  story |-> "" ],
                [ trigger |-> << "checkpoint_reached", "a" >>,
                  effect |-> "spawn_powerup",
                  payload |-> [rect |-> Rect(44, 60, 6, 10),
                               type |-> "speed_boost"],
                  story |-> "" ],
                [ trigger |-> << "presents_collected", "0" >>,
                  effect |-> "", payload |-> None,
                  story |-> "talk" ],
                [ trigger |-> << "presents_collected" >>,
                  effect |-> "", payload |-> None,
                  story |-> "" ] >>,
         interludes |-> << [id |-> "talk", sequence |-> 1] >> ] >>

\* main.py 47: the level documents, loaded once and handed to every
\* LevelManager (self.levels).
VARIABLE campaign_data

\* main.py 57: the state the OPTIONS screen returns to.
VARIABLE previous_state

(***************************************************************************)
(* LevelManager (level.py)                                                 *)
(***************************************************************************)
\* A trigger string of a level document is written as the sequence of its
\* pieces between colons: "presents_collected:2" is
\* << "presents_collected", "2" >>.
\* level.py 171-175: trigger.split(":", 1), or the whole string and "".
RECURSIVE JoinColon(_, _)
JoinColon(pieces, i) ==
    IF i > Len(pieces) THEN << >>
    ELSE IF i = Len(pieces) THEN << pieces[i] >>
    ELSE << pieces[i], ":" >> \o JoinColon(pieces, i + 1)

ParseTrigger(trigger) ==
    IF Len(trigger) > 1
    THEN [ trigger_type |-> trigger[1], trigger_value |-> JoinColon(trigger, 2) ]
    ELSE [ trigger_type |-> IF Len(trigger) = 1 THEN trigger[1] ELSE "",
           trigger_value |-> << >> ]

\* LevelManager._parse_events.  `id` is the event's place in the list (the
\* identity of the program's dict object).
ParseEvents(events) ==
    [i \in 1..Len(events) |->
        [ id |-> i,
          trigger_type |-> ParseTrigger(events[i].trigger).trigger_type,
          trigger_value |-> ParseTrigger(events[i].trigger).trigger_value,
          fired |-> FALSE,
          effect |-> events[i].effect,
          payload |-> events[i].payload,
          story |-> events[i].story ]]

\* The runtime lists hold the items still in the level.  Each item carries
\* the position it had in the level document as its identity (the program's
\* dict objects; the random texture of a present only feeds the renderer).
LoadLevel(index, mult) ==
    LET data == campaign_data[index + 1]
    IN  [ index |-> index,
          completed |-> FALSE,
          outro_played |-> FALSE,
          width |-> data.width,
          height |-> data.height,
          ground |-> data.ground,
          platforms |-> data.platforms,
          dynamic_platforms |-> << >>,
          presents |-> [i \in 1..Len(data.presents) |->
                           [id |-> i, rect |-> data.presents[i]]],
          powerups |-> [i \in 1..Len(data.powerups) |->
                           [id |-> i, rect |-> data.powerups[i].rect,
                            type |-> data.powerups[i].type]],
          enemies |-> [i \in 1..Len(data.enemies) |->
                          LET t == data.enemies[i]
                          IN  ScaleEnemy(NewEnemy(t[1], t[2], t[3], t[4],
                                                  t[5], t[6], t[7]), mult)],
          goal |-> data.goal,
          player_start |-> data.player_start,
          respawn_point |-> data.player_start,
          total_presents |-> Len(data.presents),
          spawn_base |-> Len(data.powerups),   \* identities above this
                                               \* are spawned powerups
          story_interludes |-> data.interludes,
          checkpoints |-> [i \in 1..Len(data.checkpoints) |->
                              [ id |-> data.checkpoints[i].id,
                                rect |-> data.checkpoints[i].rect,
                                respawn |-> data.checkpoints[i].respawn,
                                story |-> data.checkpoints[i].story,
                                triggered |-> FALSE ]],
          events |-> ParseEvents(data.events) ]

\* LevelManager.__init__: the index is clamped into the campaign.
NewLevelManager(index, mult) ==
    LoadLevel(Max(0, Min(index, Len(campaign_data) - 1)), mult)

\* A plausible slip: the test lets the index run past the last level (<=),
\* where there is no level document to load.
NextLevelPastEnd(lm, mult) ==
    IF lm.index + 1 < Len(campaign_data)
    THEN [lm |-> LoadLevel(lm.index + 1, mult), ok |-> TRUE]
    ELSE [lm |-> [lm EXCEPT !.index = lm.index + 1, !.completed = FALSE],
          ok |-> TRUE]

\* LevelManager.next_level: the pair (manager, returned flag).
NextLevel(lm, mult) ==
    IF lm.index + 1 < Len(campaign_data)
    THEN [lm |-> LoadLevel(lm.index + 1, mult), ok |-> TRUE]
    ELSE [lm |-> lm, ok |-> FALSE]

\* list.remove of one item.
Remove(items, item) == SelectSeq(items, LAMBDA it : it # item)

\* dict.get on the interludes of the level: the sequence stored under the
\* key, written as its number of pages; 0 stands for an empty sequence and
\* for a missing key alike (the callers only test `if sequence`).
StoryGet(interludes, key) ==
    IF \E i \in 1..Len(interludes) : interludes[i].id = key /\ key # ""
    THEN interludes[CHOOSE i \in 1..Len(interludes) :
                       /\ interludes[i].id = key
                       /\ \A j \in (i + 1)..Len(interludes) :
                              interludes[j].id # key].sequence
    ELSE 0

\* LevelManager.get_story_sequence (the levels have no intro or outro).
GetStorySequence(lm, key) == StoryGet(lm.story_interludes, key)

\* The first place of the list among the places S, 0 if there is none
\* (a loop over the list that returns at its first match).
FirstOf(S) ==
    IF S = {} THEN 0 ELSE CHOOSE i \in S : \A j \in S : i <= j

\* LevelManager.checkpoint_collisions: the place in the list of the returned
\* checkpoint, 0 for None.
CheckpointCollisions(lm, player_rect) ==
    FirstOf({ i \in 1..Len(lm.checkpoints) :
                /\ ~lm.checkpoints[i].triggered
                /\ CollideRect(player_rect, lm.checkpoints[i].rect) })

\* LevelManager.activate_checkpoint: the manager, the returned sequence and
\* the place of the checkpoint that was marked (0: none was).
ActivateCheckpoint(lm, checkpoint_id) ==
    LET i == FirstOf({ k \in 1..Len(lm.checkpoints) :
                         /\ lm.checkpoints[k].id = checkpoint_id
                         /\ ~lm.checkpoints[k].triggered })
    IN  IF i = 0
        THEN [ lm |-> lm, sequence |-> 0, marked |-> 0 ]
        ELSE [ lm |-> [lm EXCEPT !.checkpoints[i].triggered = TRUE,
                                 !.player_start = lm.checkpoints[i].respawn,
                                 !.respawn_point = lm.checkpoints[i].respawn],
               sequence |-> StoryGet(lm.story_interludes, lm.checkpoints[i].story),
               marked |-> i ]

\* int() of a string without colons that is a decimal literal.
IntLiterals == << "0", "1", "2", "3" >>

ParseInt(value) ==
    IF Len(value) = 1 /\ \E n \in 1..Len(IntLiterals) : IntLiterals[n] = value[1]
    THEN [ ok |-> TRUE,
           value |-> (CHOOSE n \in 1..Len(IntLiterals) :
                          IntLiterals[n] = value[1]) - 1 ]
    ELSE [ ok |-> FALSE, value |-> 0 ]              \* ValueError

\* A plausible slip: the count has to equal the threshold (== for >=).
ShouldFireExact(event, trigger_type, value) ==
    IF trigger_type = "presents_collected"
    THEN /\ ParseInt(event.trigger_value).ok
         /\ value = ParseInt(event.trigger_value).value
    ELSE IF trigger_type = "checkpoint_reached"
         THEN << value >> = event.trigger_value
         ELSE TRUE

\* level.py 294-305: should_fire of one event that is not fired and has the
\* trigger type asked for.
ShouldFire(event, trigger_type, value) ==
    IF trigger_type = "presents_collected"
    THEN /\ ParseInt(event.trigger_value).ok
         /\ value >= ParseInt(event.trigger_value).value
    ELSE IF trigger_type = "checkpoint_reached"
         THEN << value >> = event.trigger_value
         ELSE TRUE

\* A plausible slip: the fired flag is not looked at.
HandleProgressEventRefire(lm, trigger_type, value) ==
    LET fires(e) == /\ e.trigger_type = trigger_type
                    /\ ShouldFire(e, trigger_type, value)
    IN  [ lm |-> [lm EXCEPT !.events =
                     [i \in 1..Len(lm.events) |->
                         IF fires(lm.events[i])
                         THEN [lm.events[i] EXCEPT !.fired = TRUE]
                         ELSE lm.events[i]]],
          triggered |-> SelectSeq(lm.events, fires) ]

\* LevelManager.handle_progress_event: the manager and the returned list.
HandleProgressEvent(lm, trigger_type, value) ==
    LET fires(e) == /\ ~e.fired
                    /\ e.trigger_type = trigger_type
                    /\ ShouldFire(e, trigger_type, value)
    IN  [ lm |-> [lm EXCEPT !.events =
                     [i \in 1..Len(lm.events) |->
                         IF fires(lm.events[i])
                         THEN [lm.events[i] EXCEPT !.fired = TRUE]
                         ELSE lm.events[i]]],
          triggered |-> SelectSeq(lm.events, fires) ]

\* A plausible slip: the spawned platforms are only tracked, not added to
\* the platforms the collision passes use.
ApplyEventEffectTrackOnly(lm, event) ==
    IF event.effect = "spawn_platforms"
    THEN [lm EXCEPT !.dynamic_platforms = lm.dynamic_platforms \o event.payload.platforms]
    ELSE lm

\* LevelManager.apply_event_effect.  A spawned powerup is a new dict; its
\* identity is the event that made it.
ApplyEventEffect(lm, event) ==
    IF event.effect = "spawn_powerup"
    THEN IF event.payload.rect # None /\ event.payload.type # ""
         THEN [lm EXCEPT !.powerups =
                  Append(lm.powerups,
                         [ id |-> lm.spawn_base + event.id,
                           rect |-> event.payload.rect,
                           type |-> event.payload.type ])]
         ELSE lm
    ELSE IF event.effect = "spawn_platforms"
         THEN [lm EXCEPT
                 !.platforms = lm.platforms \o event.payload.platforms,
                 !.dynamic_platforms =
                     lm.dynamic_platforms \o event.payload.platforms]
         ELSE lm


(***************************************************************************)
(* Bounds of the model                                                     *)
(***************************************************************************)
FPS == 60                           \* constants.py
FrameMs == 1000 \div FPS            \* clock.tick(FPS): a frame on schedule
GapMs == 16000                      \* an iteration after a long stay in a menu
MaxIterations == 7                  \* loop iterations on schedule
MaxGaps == 1                        \* long iterations
MaxPauses == 1                      \* pause key presses while PLAYING
MaxJumpKeys == 1                    \* jump KEYDOWN events in one tick
MaxLag == 1                         \* ms from the sample of now to respawn
Difficulties == {"Hard"}            \* the preset the games are played on

(***************************************************************************)
(* State                                                                   *)
(***************************************************************************)
VARIABLES
    state,                \* main.py: the GameState
    now,                  \* the last value sampled by the loop (line 230)
    iterations,           \* loop iterations on schedule so far
    pauses,               \* pause key presses so far
    difficulty,           \* settings.difficulty
    lm,                   \* level_manager (None before the first game)
    player,               \* player (None before the first game)
    camera,               \* camera
    lives, score,
    level_complete_time,  \* None or the completion stamp
    obs,                  \* what the last loop iteration did (observation)
    hist,                 \* per level load: how often each item was picked up
    pe, peOld,            \* an Enemy under test and its value before update()
    cj,                   \* a can_jump call under test: arguments and result
    call                  \* a call of another function on its own: the
                          \* function, its arguments and what it returned

vars == << campaign_data, previous_state, state, now, iterations, pauses, difficulty, lm, player, camera, lives,
           score, level_complete_time, obs, hist, pe, peOld, cj, call >>

gameVars == << state, now, iterations, pauses, difficulty, lm, player, camera, lives,
               score, level_complete_time, obs, hist >>

\* None where the program keeps a time (level_complete_time).
NoTime == -1

Settings == DIFFICULTY_PRESETS[difficulty]

\* main.py 347-349: int(base * settings.powerup_mult).
ScaledDuration(ptype) ==
    (POWERUP_DURATIONS[ptype] * Settings.powerup_mult) \div 100

\* obs: what the last loop iteration did.
\*   kind             "tick" for a PLAYING iteration, the menu action otherwise
\*   jump_keys        jump KEYDOWN events delivered in the tick
\*   jumps_accepted   how many of them passed can_jump
\*   key_vy           the player's vy after the KEYDOWN events
\*   jr_before, max_jumps_before   the player's counters when the tick began
\*   landed_before    the vertical pass of the previous tick detected a landing
\*   grounded_before  `now` of the last tick whose vertical pass detected a
\*                    landing, when the tick began (NoTime: not since (re)spawn)
\*   fresh_dj         the previous tick applied double_jump to an airborne
\*                    player that had no jump left, and did not land
\*   landed           resolve_vertical returned True in this tick
\*   v_vy, v_on_ground, v_jr, v_max   the player as resolve_vertical left it
\*   presents, powerups   the items collected in this tick (ids, types)
\*   jr_at_pickup, jr_after_pickup   jumps_remaining around apply_powerup
\*   goal_overlap     the goal test of line 408 was reached and true
\*   life_lost        lines 397-398 ran
\*   enemy_overlap    line 397 was reached with collided_enemy set
\*   power_window, hit_window   at line 397, now < power_until[invincibility]
\*                    and now < hit_invincible_until
\*   prev_lost        `now` of the tick of the previous life loss of this
\*                    game, when lines 397-398 ran (NoTime: there was none)
\*   story            a story sequence was started in the tick (the
\*                    story_triggered / story_started flags)
\*   overlapped       the checkpoint checkpoint_collisions returned (its
\*                    place in the list, 0: none)
\*   marked           the checkpoint activate_checkpoint marked triggered
\*   fired, applied   the events handle_progress_event returned in the tick
\*                    and the events whose effect was applied
\*   count            the score after the last pickup of the tick
\*   events_before, dynamic_before   the level's events and dynamic
\*                    platforms when the tick began
\*   pass_platforms   the list handed to the collision passes
\*   next_level       how often next_level() was called in the tick
\*   adv_completed, adv_stamp   level_manager.completed and
\*                    level_complete_time when it was called
\*   adv_prev         the completion stamp of the call before that one
\*   key_vx           the player's vx after the held direction keys
\*   until_before     the player's power_until when the tick began
NoObs ==
    [ kind |-> "none",
      jump_keys |-> 0, jumps_accepted |-> 0, key_vy |-> 0,
      jr_before |-> 0, max_jumps_before |-> 0,
      landed_before |-> FALSE, grounded_before |-> NoTime, fresh_dj |-> FALSE,
      landed |-> FALSE,
      v_vy |-> 0, v_on_ground |-> FALSE, v_jr |-> 0, v_max |-> 0,
      presents |-> {}, powerups |-> {},
      jr_at_pickup |-> 0, jr_after_pickup |-> 0,
      goal_overlap |-> FALSE, life_lost |-> FALSE,
      enemy_overlap |-> FALSE, power_window |-> FALSE, hit_window |-> FALSE,
      prev_lost |-> NoTime,
      story |-> FALSE, overlapped |-> 0, marked |-> 0,
      fired |-> {}, applied |-> {}, count |-> 0,
      events_before |-> << >>, dynamic_before |-> << >>,
      pass_platforms |-> << >>,
      next_level |-> 0, adv_completed |-> FALSE,
      adv_stamp |-> NoTime, adv_prev |-> NoTime,
      key_vx |-> 0, until_before |-> None,
      render |-> None, can_jump_before |-> FALSE,
      resolved |-> None, step_vy |-> 0, step_dy |-> 0,
      pause_key |-> FALSE, completed_before |-> FALSE ]

\* hist: bookkeeping since the level was loaded / the player was (re)spawned.
\*   presents[i], powerups[i]   how often item i was collected
\*   grounded_at, landed, fresh_dj   see obs
\*   lost_at          `now` of the tick of the last life loss of this game
\*   checkpoints[i]   how often checkpoint i was marked triggered
\*   last_marked      the checkpoint marked last (0: none yet)
\*   adv_stamp        the completion stamp next_level() was last called
\*                    for in this game (NoTime: not yet)
\*   fired[i], applied[i]   how often event i was returned by
\*                    handle_progress_event and how often its effect was applied
NewHist(l) ==
    [ presents |-> [i \in 1..Len(l.presents) |-> 0],
      powerups |-> [i \in 1..(Len(l.powerups) + Len(l.events)) |-> 0],
      grounded_at |-> NoTime, landed |-> FALSE, fresh_dj |-> FALSE,
      lost_at |-> NoTime,
      checkpoints |-> [i \in 1..Len(l.checkpoints) |-> 0],
      last_marked |-> 0,
      adv_stamp |-> NoTime,
      fired |-> [i \in 1..Len(l.events) |-> 0],
      applied |-> [i \in 1..Len(l.events) |-> 0] ]

(***************************************************************************)
(* The PLAYING branch of the main loop (main.py 328-427), as a function of *)
(* the world w = [state, player, lm, camera, lives, score,                 *)
(* level_complete_time, obs, hist] , the tick's now and the inputs.        *)
(***************************************************************************)
\* main.py 331-337: the KEYDOWN events of the tick.
RECURSIVE JumpKeys(_, _, _)
JumpKeys(p, now_ms, n) ==
    IF n = 0 THEN p ELSE JumpKeys(JumpKey(p, now_ms), now_ms, n - 1)

EventStep(w, now_ms, in) ==
    LET p == JumpKeys(w.player, now_ms, in.jumps)
    IN  [w EXCEPT
           !.state = IF in.pause THEN "PAUSED" ELSE w.state,
           !.player = p,
           !.obs = [NoObs EXCEPT
                      !.kind = "tick",
                      !.jump_keys = in.jumps,
                      !.key_vy = p.vy,
                      !.jr_before = w.player.jumps_remaining,
                      !.max_jumps_before = w.player.max_jumps,
                      !.landed_before = w.hist.landed,
                      !.grounded_before = w.hist.grounded_at,
                      !.fresh_dj = w.hist.fresh_dj,
                      !.until_before = w.player.power_until,
                      !.can_jump_before = CanJump(w.player, now_ms),
                      !.pause_key = in.pause,
                      !.completed_before = w.lm.completed,
                      !.events_before = w.lm.events,
                      !.dynamic_before = w.lm.dynamic_platforms,
                      !.jumps_accepted =
                          w.player.jumps_remaining - p.jumps_remaining]]

\* main.py 339-345: the held direction keys.
KeysStep(p, in) ==
    LET p1 == [p EXCEPT !.vx = 0]
        p2 == IF in.left THEN [p1 EXCEPT !.vx = -p1.speed] ELSE p1
    IN  IF in.right THEN [p2 EXCEPT !.vx = p2.speed] ELSE p2

\* A plausible slip: no terminal velocity.
GravityStepNoCap(p) == [p EXCEPT !.vy = p.vy + GRAVITY]

\* main.py 353-355.
GravityStep(p) ==
    LET v == p.vy + GRAVITY
    IN  [p EXCEPT !.vy = IF v > MAX_FALL THEN MAX_FALL ELSE v]

\* main.py 339-361: keys, powerup timers, integration and collision passes.
PhysicsStep(w, now_ms, in) ==
    LET plats == << w.lm.ground >> \o w.lm.platforms
        p1 == GravityStep(UpdatePowerups(KeysStep(w.player, in), now_ms))
        p2 == ResolveHorizontal([p1 EXCEPT !.x = p1.x + p1.vx], plats)
        v  == ResolveVertical([p2 EXCEPT !.y = p2.y + p2.vy], plats)
        p3 == ClampPlayerToLevel(v.p, w.lm.width, w.lm.height)
    IN  [w EXCEPT
           !.player = p3,
           !.obs = [w.obs EXCEPT
                      !.pass_platforms = plats,
                      !.resolved = PlayerRect(p3),
                      !.step_vy = p2.vy,
                      !.step_dy = Trunc(p2.y + p2.vy) - p2.ry,
                      !.key_vx = KeysStep(w.player, in).vx,
                      !.landed = v.on_ground,
                      !.v_vy = v.p.vy, !.v_on_ground = v.p.on_ground,
                      !.v_jr = v.p.jumps_remaining, !.v_max = v.p.max_jumps],
           !.hist = [w.hist EXCEPT
                       !.landed = v.on_ground,
                       !.fresh_dj = FALSE,
                       !.grounded_at = IF v.on_ground THEN now_ms
                                       ELSE w.hist.grounded_at]]

\* main.py 367-369.
CameraEnemiesStep(w) ==
    [w EXCEPT
       !.camera = CameraUpdate(PlayerRect(w.player), w.lm.width, w.lm.height),
       !.lm = [w.lm EXCEPT !.enemies =
                  [i \in 1..Len(w.lm.enemies) |-> EnemyUpdate(w.lm.enemies[i])]]]

\* main.py 94-108 as the interludes call it: next_state is PLAYING and
\* there is no post_action.
BeginStory(w, sequence, story_state) ==
    IF sequence > 0
    THEN [w EXCEPT !.state = story_state]
    ELSE [w EXCEPT !.state = "PLAYING"]

\* main.py 162-167: the loop over the triggered events.
RECURSIVE DispatchLoop(_, _, _, _)
DispatchLoop(w, triggered, i, triggered_story) ==
    IF i > Len(triggered) THEN [w |-> w, story |-> triggered_story]
    ELSE LET event == triggered[i]
             w1 == [w EXCEPT
                      !.lm = ApplyEventEffect(w.lm, event),
                      !.obs = [w.obs EXCEPT
                                 !.applied = w.obs.applied \cup {event.id}],
                      !.hist = [w.hist EXCEPT
                                  !.applied[event.id] =
                                      w.hist.applied[event.id] + 1]]
         IN  IF event.story # "" /\ ~triggered_story
             THEN DispatchLoop(
                      BeginStory(w1, GetStorySequence(w1.lm, event.story),
                                 "STORY_INTERLUDE"),
                      triggered, i + 1, TRUE)
             ELSE DispatchLoop(w1, triggered, i + 1, triggered_story)

\* main.py 159-168: the world and the returned flag.
DispatchEvents(w, trigger_type, value) ==
    LET h == HandleProgressEvent(w.lm, trigger_type, value)
        ids == { h.triggered[i].id : i \in 1..Len(h.triggered) }
    IN  DispatchLoop(
            [w EXCEPT
               !.lm = h.lm,
               !.obs = [w.obs EXCEPT !.fired = w.obs.fired \cup ids],
               !.hist = [w.hist EXCEPT
                           !.fired = [i \in DOMAIN w.hist.fired |->
                                         IF i \in ids THEN w.hist.fired[i] + 1
                                         ELSE w.hist.fired[i]]]],
            h.triggered, 1, FALSE)

\* main.py 147-156: the world and the returned flag.
HandleCheckpoint(w, cp) ==
    LET checkpoint == w.lm.checkpoints[cp]
        a == ActivateCheckpoint(w.lm, checkpoint.id)
        w1 == [w EXCEPT
                 !.lm = a.lm,
                 !.obs = [w.obs EXCEPT !.overlapped = cp, !.marked = a.marked],
                 !.hist = [w.hist EXCEPT
                             !.last_marked = IF a.marked # 0 THEN a.marked
                                             ELSE w.hist.last_marked,
                             !.checkpoints =
                                 [i \in DOMAIN w.hist.checkpoints |->
                                     IF i = a.marked
                                     THEN w.hist.checkpoints[i] + 1
                                     ELSE w.hist.checkpoints[i]]]]
        w2 == IF a.sequence > 0
              THEN BeginStory(w1, a.sequence, "STORY_INTERLUDE")
              ELSE w1
        d == DispatchEvents(w2, "checkpoint_reached", checkpoint.id)
    IN  [w |-> d.w, story |-> a.sequence > 0 \/ d.story]

\* main.py 363-365: the checkpoint test; obs.story tells the `continue`.
CheckpointStep(w) ==
    LET cp == CheckpointCollisions(w.lm, PlayerRect(w.player))
    IN  IF cp = 0 THEN w
        ELSE LET h == HandleCheckpoint(w, cp)
             IN  [h.w EXCEPT !.obs = [h.w.obs EXCEPT !.story = h.story]]

\* A plausible slip: the collected present stays in the list.
PickPresentKeep(w, present) ==
    [w EXCEPT
       !.score = w.score + 1,
       !.hist = [w.hist EXCEPT
                   !.presents[present.id] = w.hist.presents[present.id] + 1],
       !.obs = [w.obs EXCEPT !.presents = w.obs.presents \cup {present.id}]]

\* A plausible slip: the present is removed but not counted.
PickPresentNoScore(w, present) ==
    [w EXCEPT
       !.lm = [w.lm EXCEPT !.presents = Remove(w.lm.presents, present)],
       !.hist = [w.hist EXCEPT
                   !.presents[present.id] = w.hist.presents[present.id] + 1],
       !.obs = [w.obs EXCEPT !.presents = w.obs.presents \cup {present.id},
                             !.count = w.score]]

\* main.py 374-375: one collected present.
PickPresent(w, present) ==
    [w EXCEPT
       !.lm = [w.lm EXCEPT !.presents = Remove(w.lm.presents, present)],
       !.score = w.score + 1,
       !.hist = [w.hist EXCEPT
                   !.presents[present.id] = w.hist.presents[present.id] + 1],
       !.obs = [w.obs EXCEPT !.presents = w.obs.presents \cup {present.id},
                             !.count = w.score + 1]]

\* main.py 372-379: the loop over a copy of the presents list; a started
\* story breaks it.
RECURSIVE PresentsLoop(_, _, _)
PresentsLoop(w, copy, i) ==
    IF i > Len(copy) THEN w
    ELSE IF CollideRect(PlayerRect(w.player), copy[i].rect)
         THEN LET w1 == PickPresent(w, copy[i])
                  d == DispatchEvents(w1, "presents_collected", w1.score)
              IN  IF d.story
                  THEN [d.w EXCEPT !.obs = [d.w.obs EXCEPT !.story = TRUE]]
                  ELSE PresentsLoop(d.w, copy, i + 1)
         ELSE PresentsLoop(w, copy, i + 1)

PresentsStep(w) == PresentsLoop(w, w.lm.presents, 1)

\* main.py 386-388: one collected powerup.
PickPowerup(w, power, now_ms) ==
    LET p == ApplyPowerup(w.player, power.type,
                          ScaledDuration(power.type), now_ms)
        dj == power.type = "double_jump"
    IN  [w EXCEPT
           !.player = p,
           !.lm = [w.lm EXCEPT !.powerups = Remove(w.lm.powerups, power)],
           !.hist = [w.hist EXCEPT
                       !.powerups[power.id] = w.hist.powerups[power.id] + 1,
                       !.fresh_dj = IF dj
                                    THEN w.player.jumps_remaining = 0
                                    ELSE w.hist.fresh_dj],
           !.obs = [w.obs EXCEPT
                      !.powerups = w.obs.powerups \cup {power.type},
                      !.jr_at_pickup = IF dj THEN w.player.jumps_remaining
                                       ELSE w.obs.jr_at_pickup,
                      !.jr_after_pickup = IF dj THEN p.jumps_remaining
                                          ELSE w.obs.jr_after_pickup]]

\* main.py 384-389: the loop over a copy of the powerups list.
RECURSIVE PowerupsLoop(_, _, _, _)
PowerupsLoop(w, copy, i, now_ms) ==
    IF i > Len(copy) THEN w
    ELSE IF CollideRect(PlayerRect(w.player), copy[i].rect)
         THEN PowerupsLoop(PickPowerup(w, copy[i], now_ms), copy, i + 1, now_ms)
         ELSE PowerupsLoop(w, copy, i + 1, now_ms)

PowerupsStep(w, now_ms) == PowerupsLoop(w, w.lm.powerups, 1, now_ms)

\* main.py 391-395: is there an enemy the player overlaps.
CollidedEnemy(w) ==
    \E i \in 1..Len(w.lm.enemies) :
        CollideRect(PlayerRect(w.player), EnemyRect(w.lm.enemies[i]))

\* A plausible slip: the goal completes the level whatever the score.
GoalStepNoGate(w, now_ms) ==
    IF CollideRect(PlayerRect(w.player), w.lm.goal)
    THEN IF ~w.lm.completed
         THEN [w EXCEPT !.lm = [w.lm EXCEPT !.completed = TRUE],
                        !.level_complete_time = now_ms,
                        !.obs = [w.obs EXCEPT !.goal_overlap = TRUE]]
         ELSE [w EXCEPT !.obs = [w.obs EXCEPT !.goal_overlap = TRUE]]
    ELSE w

\* A plausible slip: the `if not level_manager.completed` test is missing.
GoalStepRestamp(w, now_ms) ==
    IF CollideRect(PlayerRect(w.player), w.lm.goal)
    THEN IF w.score >= w.lm.total_presents
         THEN [w EXCEPT !.lm = [w.lm EXCEPT !.completed = TRUE],
                        !.level_complete_time = now_ms,
                        !.obs = [w.obs EXCEPT !.goal_overlap = TRUE]]
         ELSE [w EXCEPT !.obs = [w.obs EXCEPT !.goal_overlap = TRUE]]
    ELSE w

\* main.py 408-415.
GoalStep(w, now_ms) ==
    IF CollideRect(PlayerRect(w.player), w.lm.goal)
    THEN IF w.score >= w.lm.total_presents /\ ~w.lm.completed
         THEN [w EXCEPT !.lm = [w.lm EXCEPT !.completed = TRUE],
                        !.level_complete_time = now_ms,
                        !.obs = [w.obs EXCEPT !.goal_overlap = TRUE]]
         ELSE [w EXCEPT !.obs = [w.obs EXCEPT !.goal_overlap = TRUE]]
    ELSE w

\* main.py 78-83 with reset_score = True.
SpawnPlayer(w) ==
    [w EXCEPT
       !.player = NewPlayer(w.lm.player_start[1], w.lm.player_start[2]),
       !.camera = [x |-> 0, y |-> 0],
       !.score = 0]

\* main.py 124-144 (the levels of the campaign have no intro sequence).
AdvanceToNextLevel(w) ==
    LET n == NextLevel(w.lm, Settings.enemy_speed_mult)
        seen == [w.obs EXCEPT !.next_level = w.obs.next_level + 1,
                              !.adv_completed = w.lm.completed,
                              !.adv_stamp = w.level_complete_time,
                              !.adv_prev = w.hist.adv_stamp]
    IN  IF n.ok
        THEN LET w1 == SpawnPlayer([w EXCEPT !.lm = n.lm])
             IN  [w1 EXCEPT !.level_complete_time = NoTime,
                            !.state = "PLAYING",
                            !.obs = seen,
                            !.hist = [NewHist(n.lm) EXCEPT
                                        !.lost_at = w.hist.lost_at,
                                        !.adv_stamp = w.level_complete_time]]
        ELSE [w EXCEPT !.state = "MAIN_MENU",
                       !.obs = seen,
                       !.hist = [w.hist EXCEPT
                                   !.adv_stamp = w.level_complete_time]]

\* A plausible slip: the level is left in the tick that completes it.
LevelCompleteStepNoDelay(w, now_ms) ==
    IF /\ w.lm.completed
       /\ w.level_complete_time # NoTime
    THEN AdvanceToNextLevel(w)
    ELSE w

\* main.py 421-427 (the levels of the campaign have no outro sequence).
LevelCompleteStep(w, now_ms) ==
    IF /\ w.lm.completed
       /\ w.level_complete_time # NoTime
       /\ now_ms - w.level_complete_time > LEVEL_COMPLETE_DELAY
    THEN AdvanceToNextLevel(w)
    ELSE w

\* Lines 417-419 as the observation sees them: the camera and the player's
\* rectangle the frame is drawn with.
RenderSeen(w) ==
    [w EXCEPT !.obs = [w.obs EXCEPT
        !.render = [camera |-> w.camera, rect |-> PlayerRect(w.player)]]]

\* Lines 391-397 as the observation sees them.
EnemySeen(w, now_ms) ==
    [w EXCEPT !.obs = [w.obs EXCEPT
        !.enemy_overlap = CollidedEnemy(w),
        !.power_window = now_ms < w.player.power_until.invincibility,
        !.hit_window = now_ms < w.player.hit_invincible_until]]

\* Lines 398 and 405 as the observation sees them.
LifeSeen(w, now_ms) ==
    [w EXCEPT !.obs = [w.obs EXCEPT !.life_lost = TRUE,
                                    !.prev_lost = w.hist.lost_at],
              !.hist = [w.hist EXCEPT !.lost_at = now_ms]]

\* A plausible slip: the game ends only below zero lives (< instead of <=).
InteractStepBelowZero(w, now_ms, in) ==
    IF CollidedEnemy(w) /\ ~IsInvincible(w.player, now_ms)
    THEN IF w.lives - 1 < 0
         THEN [LifeSeen(EnemySeen(w, now_ms), now_ms) EXCEPT
                 !.lives = w.lives - 1,
                 !.state = "MAIN_MENU"]
         ELSE LevelCompleteStep(
                RenderSeen(GoalStep(
                  [LifeSeen(EnemySeen(w, now_ms), now_ms) EXCEPT
                     !.lives = w.lives - 1,
                     !.player = Respawn(w.player, w.lm.player_start[1],
                                        w.lm.player_start[2],
                                        now_ms + in.lag),
                     !.hist.grounded_at = NoTime,
                     !.hist.landed = FALSE,
                     !.hist.fresh_dj = FALSE],
                  now_ms)),
                now_ms)
    ELSE LevelCompleteStep(RenderSeen(GoalStep(EnemySeen(w, now_ms), now_ms)),
                           now_ms)

\* main.py 391-427: enemy contact, goal and level change.
InteractStep(w, now_ms, in) ==
    IF CollidedEnemy(w) /\ ~IsInvincible(w.player, now_ms)
    THEN IF w.lives - 1 <= 0
         THEN [LifeSeen(EnemySeen(w, now_ms), now_ms) EXCEPT
                 !.lives = w.lives - 1,
                 !.state = "MAIN_MENU"]
         ELSE LevelCompleteStep(
                RenderSeen(GoalStep(
                  [LifeSeen(EnemySeen(w, now_ms), now_ms) EXCEPT
                     !.lives = w.lives - 1,
                     !.player = Respawn(w.player, w.lm.player_start[1],
                                        w.lm.player_start[2],
                                        now_ms + in.lag),
                     !.hist.grounded_at = NoTime,
                     !.hist.landed = FALSE,
                     !.hist.fresh_dj = FALSE],
                  now_ms)),
                now_ms)
    ELSE LevelCompleteStep(RenderSeen(GoalStep(EnemySeen(w, now_ms), now_ms)),
                           now_ms)

\* One iteration of the loop in the PLAYING state.
PlayingTick(w, now_ms, in) ==
    LET w1 == EventStep(w, now_ms, in)
        w2 == CheckpointStep(PhysicsStep(w1, now_ms, in))
        w3 == PresentsStep(CameraEnemiesStep(w2))
    IN  IF w2.obs.story                          \* line 365: continue
        THEN w2
        ELSE IF w3.obs.story \/ w3.state # "PLAYING"   \* line 381: continue
             THEN w3
             ELSE InteractStep(PowerupsStep(w3, now_ms), now_ms, in)


(***************************************************************************)
(* The main loop (main.py 228-427): one action per branch                  *)
(***************************************************************************)
World ==
    [ state |-> state, player |-> player, lm |-> lm, camera |-> camera,
      lives |-> lives, score |-> score,
      level_complete_time |-> level_complete_time, obs |-> obs, hist |-> hist ]

Store(v) ==
    \E w \in {v} :
    /\ state' = w.state
    /\ player' = w.player
    /\ lm' = w.lm
    /\ camera' = w.camera
    /\ lives' = w.lives
    /\ score' = w.score
    /\ level_complete_time' = w.level_complete_time
    /\ obs' = w.obs
    /\ hist' = w.hist

\* main.py 229-230: the loop samples `now` once per iteration.
Sample(dt) ==
    /\ \/ dt = FrameMs /\ iterations < MaxIterations
                       /\ iterations' = iterations + 1
       \/ dt = GapMs /\ (now + GapMs) \div GapMs <= MaxGaps
                     /\ iterations' = iterations
    /\ now' = now + dt

DTs == {FrameMs, GapMs}

\* main.py 86-91 followed by lines 251 / 276.
StartNewGame(w, level_index) ==
    LET l == NewLevelManager(level_index, Settings.enemy_speed_mult)
        w1 == SpawnPlayer([w EXCEPT !.lm = l])
    IN  [w1 EXCEPT !.lives = Settings.lives,
                   !.level_complete_time = NoTime,
                   !.state = "PLAYING",
                   !.hist = NewHist(l)]

Seen(w, kind) == [w EXCEPT !.obs = [NoObs EXCEPT !.kind = kind]]

\* main.py 240-260.  An iteration that changes nothing but `now` (no menu
\* action) is covered by the length dt of the iteration that follows it.
MainMenuStart ==
    /\ state = "MAIN_MENU"
    /\ \E dt \in DTs : Sample(dt)
    /\ Store(Seen(StartNewGame(World, 0), "start"))
    /\ UNCHANGED << campaign_data, previous_state, pauses, difficulty, pe, peOld, cj, call >>

MainMenuLevelSelector ==
    /\ state = "MAIN_MENU"
    /\ \E dt \in DTs : Sample(dt)
    /\ Store(Seen([World EXCEPT !.state = "LEVEL_SELECT"], "menu"))
    /\ UNCHANGED << campaign_data, previous_state, pauses, difficulty, pe, peOld, cj, call >>

\* main.py 262-278.
LevelSelectBack ==
    /\ state = "LEVEL_SELECT"
    /\ \E dt \in DTs : Sample(dt)
    /\ Store(Seen([World EXCEPT !.state = "MAIN_MENU"], "menu"))
    /\ UNCHANGED << campaign_data, previous_state, pauses, difficulty, pe, peOld, cj, call >>

LevelSelectStart ==
    /\ state = "LEVEL_SELECT"
    /\ \E dt \in DTs : Sample(dt)
    /\ \E idx \in 0..(Len(campaign_data) - 1) :
           Store(Seen(StartNewGame(World, idx), "start"))
    /\ UNCHANGED << campaign_data, previous_state, pauses, difficulty, pe, peOld, cj, call >>

\* main.py 291-310.
PausedResume ==
    /\ state = "PAUSED"
    /\ \E dt \in DTs : Sample(dt)
    /\ Store(Seen([World EXCEPT !.state = "PLAYING"], "paused"))
    /\ UNCHANGED << campaign_data, previous_state, pauses, difficulty, pe, peOld, cj, call >>

PausedQuitToMenu ==
    /\ state = "PAUSED"
    /\ \E dt \in DTs : Sample(dt)
    /\ Store(Seen([World EXCEPT !.state = "MAIN_MENU"], "paused"))
    /\ UNCHANGED << campaign_data, previous_state, pauses, difficulty, pe, peOld, cj, call >>

\* main.py 328-427.  lag is the time in ms between the sample of now at line
\* 230 and the call of pygame.time.get_ticks() in Player.respawn.
Inputs ==
    [ jumps : 0..MaxJumpKeys, pause : BOOLEAN,
      left : BOOLEAN, right : BOOLEAN, lag : 0..MaxLag ]

\* Only Player.respawn reads the clock again, so the ticks that lose no life
\* are taken with lag 0 alone.
Playing ==
    /\ state = "PLAYING"
    /\ Sample(FrameMs)
    /\ \E in \in Inputs :
           /\ in.lag = 0
           /\ in.pause => pauses < MaxPauses
           /\ pauses' = IF in.pause THEN pauses + 1 ELSE pauses
           /\ \E onTime \in {PlayingTick(World, now', in)} :
                  \E lag \in 0..MaxLag :
                      /\ lag > 0 => onTime.obs.life_lost
                      /\ Store(IF lag = 0 THEN onTime
                               ELSE PlayingTick(World, now',
                                                [in EXCEPT !.lag = lag]))
    /\ UNCHANGED << campaign_data, previous_state, difficulty, pe, peOld, cj, call >>

Init ==
    /\ state = "MAIN_MENU"
    /\ now = 0
    /\ iterations = 0
    /\ pauses = 0
    /\ difficulty \in Difficulties
    /\ lm = None /\ player = None /\ camera = None
    /\ lives = 0 /\ score = 0
    /\ level_complete_time = NoTime
    /\ obs = NoObs
    /\ hist = None
    /\ campaign_data = Levels
    /\ previous_state = "MAIN_MENU"
    /\ pe = None /\ peOld = None /\ cj = None
    /\ call = None

Next ==
    \/ MainMenuStart
    \/ MainMenuLevelSelector
    \/ LevelSelectBack
    \/ LevelSelectStart
    \/ PausedResume
    \/ PausedQuitToMenu
    \/ Playing

Spec == Init /\ [][Next]_vars

(***************************************************************************)
(* The same program on the campaign with checkpoints, events and a story   *)
(* interlude.  main.py 312-323: while a story is shown the loop only       *)
(* feeds the textbox; when the player has read it, finish_story goes to    *)
(* story_next_state, which is PLAYING after every interlude.               *)
(***************************************************************************)
StoryFinish ==
    /\ state = "STORY_INTERLUDE"
    /\ \E dt \in DTs : Sample(dt)
    /\ Store(Seen([World EXCEPT !.state = "PLAYING"], "story"))
    /\ UNCHANGED << campaign_data, previous_state, pauses, difficulty, pe, peOld, cj, call >>

InitStory ==
    /\ state = "MAIN_MENU"
    /\ now = 0
    /\ iterations = 0
    /\ pauses = 0
    /\ difficulty \in Difficulties
    /\ lm = None /\ player = None /\ camera = None
    /\ lives = 0 /\ score = 0
    /\ level_complete_time = NoTime
    /\ obs = NoObs
    /\ hist = None
    /\ campaign_data = StoryLevels
    /\ previous_state = "MAIN_MENU"
    /\ pe = None /\ peOld = None /\ cj = None
    /\ call = None

NextStory ==
    \/ Next
    \/ StoryFinish

SpecStory == InitStory /\ [][NextStory]_vars

(***************************************************************************)
(* The same program on a campaign of one level wider than the viewport.    *)
(* The player starts in the air, 2 px above the ground, over a step 1 px   *)
(* high that lies on the ground.  A speed_boost powerup is two steps       *)
(* (10 px) to the right of the start, an enemy that does not move three    *)
(* steps (15 px); the only present and the goal are out of reach.          *)
(***************************************************************************)
WideLevels ==
    << [ width |-> 1000, height |-> 120,
         player_start |-> <<400, 38>>,
         goal |-> Rect(998, 110, 2, 10),
         ground |-> Rect(0, 100, 1000, 20),
         platforms |-> << Rect(400, 99, 10, 1) >>,
         presents |-> << Rect(900, 80, 5, 10) >>,
         powerups |-> << [rect |-> Rect(445, 40, 5, 10),
                          type |-> "speed_boost"] >>,
         enemies |-> << <<450, 0, 1, 100, 450, 450, 0>> >>,
         checkpoints |-> << >>, events |-> << >>, interludes |-> << >> ] >>

InitWide ==
    /\ state = "MAIN_MENU"
    /\ now = 0
    /\ iterations = 0
    /\ pauses = 0
    /\ difficulty \in Difficulties
    /\ lm = None /\ player = None /\ camera = None
    /\ lives = 0 /\ score = 0
    /\ level_complete_time = NoTime
    /\ obs = NoObs
    /\ hist = None
    /\ campaign_data = WideLevels
    /\ previous_state = "MAIN_MENU"
    /\ pe = None /\ peOld = None /\ cj = None
    /\ call = None

SpecWide == InitWide /\ [][Next]_vars


(***************************************************************************)
(* Enemy.update on its own: an enemy built by Enemy.__init__ from any      *)
(* start position, patrol interval and speed, updated tick after tick.     *)
(***************************************************************************)
MaxPatrol == 4                      \* patrol bounds range over 0..MaxPatrol
MaxStart == 6                       \* start positions range over -2..MaxStart
MaxSpeedHalves == 5                 \* |speed| ranges over 0, 0.5, .. px/tick

EnemySpeeds == { (k * Scale) \div 2 : k \in (-MaxSpeedHalves)..MaxSpeedHalves }

InitEnemy ==
    /\ state = "MAIN_MENU"
    /\ now = 0
    /\ iterations = 0
    /\ pauses = 0
    /\ difficulty \in Difficulties
    /\ lm = None /\ player = None /\ camera = None
    /\ lives = 0 /\ score = 0
    /\ level_complete_time = NoTime
    /\ obs = NoObs
    /\ hist = None
    /\ campaign_data = Levels
    /\ previous_state = "MAIN_MENU"
    /\ cj = None
    /\ call = None
    /\ peOld = None
    /\ \E x \in (-2)..MaxStart, lo \in 0..MaxPatrol, hi \in 0..MaxPatrol,
          sp \in EnemySpeeds :
          /\ lo <= hi
          /\ pe = NewEnemy(x, 0, 4, 10, lo, hi, sp)

EnemyTick ==
    /\ pe # None
    /\ peOld' = pe
    /\ pe' = EnemyUpdate(pe)
    /\ UNCHANGED gameVars
    /\ UNCHANGED << campaign_data, previous_state, cj, call >>

NextEnemy == EnemyTick

SpecEnemy == InitEnemy /\ [][NextEnemy]_vars

(***************************************************************************)
(* Player.can_jump on its own: one call on a player whose fields the call  *)
(* reads are drawn from small sets.                                        *)
(***************************************************************************)
MaxJumpsRemaining == 2              \* jumps_remaining ranges over -1..this
MaxCallTime == 4                    \* times are multiples of COYOTE_TIME \div 2
                                    \* up to this many, and one ms around them

CallTimes ==
    { k * (COYOTE_TIME \div 2) + d : k \in 0..MaxCallTime, d \in {-1, 0, 1} }
        \cap Nat

InitCanJump ==
    /\ state = "MAIN_MENU"
    /\ now = 0
    /\ iterations = 0
    /\ pauses = 0
    /\ difficulty \in Difficulties
    /\ lm = None /\ player = None /\ camera = None
    /\ lives = 0 /\ score = 0
    /\ level_complete_time = NoTime
    /\ obs = NoObs
    /\ hist = None
    /\ campaign_data = Levels
    /\ previous_state = "MAIN_MENU"
    /\ pe = None /\ peOld = None
    /\ call = None
    /\ \E jr \in (-1)..MaxJumpsRemaining, og \in BOOLEAN, mj \in {1, 2},
          lgt \in CallTimes, t \in CallTimes :
          cj = [ p |-> [NewPlayer(0, 0) EXCEPT
                          !.jumps_remaining = jr, !.on_ground = og,
                          !.max_jumps = mj, !.last_ground_time = lgt],
                 current_time |-> t,
                 called |-> FALSE, result |-> FALSE ]

CanJumpCall ==
    /\ cj # None
    /\ ~cj.called
    /\ cj' = [cj EXCEPT !.called = TRUE,
                        !.result = CanJump(cj.p, cj.current_time)]
    /\ UNCHANGED gameVars
    /\ UNCHANGED << campaign_data, previous_state, pe, peOld, call >>

NextCanJump == CanJumpCall

SpecCanJump == InitCanJump /\ [][NextCanJump]_vars


(***************************************************************************)
(* Functions on their own.  `call` holds one call: the function (fn), its  *)
(* arguments, whether it has run (done) and what it returned or left       *)
(* behind.  Outside these specifications the game variables keep their     *)
(* initial values.                                                         *)
(***************************************************************************)
Idle ==
    /\ state = "MAIN_MENU"
    /\ now = 0
    /\ iterations = 0
    /\ pauses = 0
    /\ lm = None /\ player = None /\ camera = None
    /\ lives = 0 /\ score = 0
    /\ level_complete_time = NoTime
    /\ obs = NoObs
    /\ hist = None
    /\ campaign_data = Levels
    /\ previous_state = "MAIN_MENU"
    /\ pe = None /\ peOld = None /\ cj = None

Untouched == UNCHANGED << campaign_data, previous_state, gameVars, pe, peOld, cj >>

(***************************************************************************)
(* Camera.update on its own: levels at least as large as the viewport and  *)
(* player rectangles inside, at the edges of and outside the level.        *)
(***************************************************************************)
MaxCamSteps == 3                    \* level sizes and positions are sampled
CamStep == 400                      \* on a grid of MaxCamSteps + 1 points,
                                    \* CamStep px apart, and one px around

CamOffsets == { k * CamStep + d : k \in 0..MaxCamSteps, d \in {-1, 0, 1} }

CamLevelWidths == { BASE_WIDTH + k * CamStep : k \in 0..MaxCamSteps }

CamLevelHeights == { BASE_HEIGHT + k * CamStep : k \in 0..MaxCamSteps }

InitCamera ==
    /\ Idle
    /\ difficulty \in Difficulties
    /\ \E lw \in CamLevelWidths, lh \in CamLevelHeights,
          px \in CamOffsets, py \in CamOffsets :
          call = [ fn |-> "Camera.update",
                   player_rect |-> Rect(px - PLAYER_W, py - PLAYER_H,
                                        PLAYER_W, PLAYER_H),
                   level_width |-> lw, level_height |-> lh,
                   done |-> FALSE, camera |-> [x |-> 0, y |-> 0] ]

CameraUpdateCall ==
    /\ call # None /\ call.fn = "Camera.update" /\ ~call.done
    /\ call' = [call EXCEPT
                  !.done = TRUE,
                  !.camera = CameraUpdate(call.player_rect, call.level_width,
                                          call.level_height)]
    /\ Untouched

NextCamera == CameraUpdateCall

SpecCamera == InitCamera /\ [][NextCamera]_vars

(***************************************************************************)
(* Powerup timers on their own: a pickup (main.py 386-387:                 *)
(* apply_powerup(ptype, scaled_duration(ptype), now)) on a new player at   *)
(* time t, followed by update_powerups at a time around the expiry.        *)
(***************************************************************************)
MaxPickupSec == 1                   \* pickups at 0 .. MaxPickupSec seconds
MaxSkew == 3                        \* update_powerups up to MaxSkew ms
                                    \* before and after the expiry

AllDifficulties == {"Easy", "Normal", "Hard"}

InitPowerup ==
    /\ Idle
    /\ difficulty \in AllDifficulties
    /\ \E ptype \in PowerupTypes, k \in 0..MaxPickupSec :
          call = [ fn |-> "powerup", ptype |-> ptype, t |-> k * 1000,
                   p |-> NewPlayer(0, 0),
                   applied |-> FALSE, done |-> FALSE, now |-> NoTime ]

ApplyPowerupCall ==
    /\ call # None /\ call.fn = "powerup" /\ ~call.applied
    /\ call' = [call EXCEPT
                  !.applied = TRUE,
                  !.p = ApplyPowerup(call.p, call.ptype,
                                     ScaledDuration(call.ptype), call.t)]
    /\ Untouched

UpdatePowerupsCall ==
    /\ call # None /\ call.fn = "powerup" /\ call.applied /\ ~call.done
    /\ \E n \in { call.p.power_until[call.ptype] + d :
                      d \in (-MaxSkew)..MaxSkew } \cup {call.t} :
          call' = [call EXCEPT !.done = TRUE, !.now = n,
                               !.p = UpdatePowerups(call.p, n)]
    /\ Untouched

NextPowerup == ApplyPowerupCall \/ UpdatePowerupsCall

SpecPowerup == InitPowerup /\ [][NextPowerup]_vars

(***************************************************************************)
(* LevelManager on its own: a manager built by __init__ for any requested  *)
(* index, played for a while (the level completed or not, some of its      *)
(* presents collected), then next_level() called again and again.          *)
(***************************************************************************)
MaxIndexArg == 4                    \* index arguments range over -2..this
MaxCollected == 2                   \* presents collected before the call

\* The first n items of a list are gone.
Collected(items, n) == SubSeq(items, Min(n, Len(items)) + 1, Len(items))

InitLevels ==
    /\ Idle
    /\ difficulty \in AllDifficulties
    /\ \E index \in (-2)..MaxIndexArg, c \in BOOLEAN, n \in 0..MaxCollected :
          LET l == NewLevelManager(index, Settings.enemy_speed_mult)
              m == [l EXCEPT !.completed = c,
                             !.presents = Collected(l.presents, n)]
          IN  call = [ fn |-> "next_level", index_arg |-> index,
                       before |-> m, lm |-> m,
                       done |-> FALSE, ok |-> FALSE ]

NextLevelCall ==
    /\ call # None /\ call.fn = "next_level"
    /\ LET r == NextLevel(call.lm, Settings.enemy_speed_mult)
       IN  call' = [call EXCEPT !.before = call.lm, !.lm = r.lm,
                                !.ok = r.ok, !.done = TRUE]
    /\ Untouched

NextLevels == NextLevelCall

SpecLevels == InitLevels /\ [][NextLevels]_vars

(***************************************************************************)
(* load_campaign_data (level.py 76-93) on its own.  A campaign file is     *)
(* missing, unparsable or holds a JSON value.  A JSON value is kept by its *)
(* kind; of an object, what the function looks at: whether it has a        *)
(* "campaign" member and of which kind, and its "levels" member            *)
(* (kind "missing" when absent, the length when an array).                 *)
(***************************************************************************)
MaxLevels == 2                      \* "levels" arrays hold 0..MaxLevels levels

JsonKinds == {"object", "array", "string", "number", "null"}

\* The "levels" member of an object.
LevelsMembers ==
    { [kind |-> k, len |-> 0] : k \in (JsonKinds \ {"array"}) \cup {"missing"} }
        \cup { [kind |-> "array", len |-> n] : n \in 0..MaxLevels }

\* The "campaign" member of the root object ("levels" counts for an object).
CampaignMembers ==
    { [kind |-> k, levels |-> l] : k \in JsonKinds \cup {"missing"},
                                   l \in LevelsMembers }

CampaignFiles ==
    { [file |-> f, root |-> r, campaign |-> c, levels |-> l] :
        f \in {"missing", "unparsable", "parsed"}, r \in JsonKinds,
        c \in CampaignMembers, l \in LevelsMembers }

\* _default_campaign(): one level.
DefaultCampaign == [source |-> "fallback", nlevels |-> 1]

\* The body of the try statement (lines 80-89): the exception it raises, or
\* "none" and the campaign it leaves in `campaign`.
TryLoad(doc) ==
    IF doc.file = "missing"
    THEN [exc |-> "FileNotFoundError", campaign |-> DefaultCampaign]
    ELSE IF doc.file = "unparsable"
    THEN [exc |-> "JSONDecodeError", campaign |-> DefaultCampaign]
    ELSE IF doc.root # "object"                    \* raw.get on a non-dict
    THEN [exc |-> "AttributeError", campaign |-> DefaultCampaign]
    ELSE LET wrapped == doc.campaign.kind # "missing"
             kind == IF wrapped THEN doc.campaign.kind ELSE doc.root
             levels == IF wrapped THEN doc.campaign.levels ELSE doc.levels
         IN  IF kind # "object"
             THEN [exc |-> "ValueError", campaign |-> DefaultCampaign]
             ELSE IF levels.kind # "array" \/ levels.len = 0
             THEN [exc |-> "ValueError", campaign |-> DefaultCampaign]
             ELSE [exc |-> "none",
                   campaign |-> [source |-> "document", nlevels |-> levels.len]]

\* The classes `except Exception` catches, among those the body can raise.
ExceptionClasses ==
    {"FileNotFoundError", "JSONDecodeError", "AttributeError", "ValueError"}

\* A plausible slip: the handler only catches the function's own ValueError
\* (JSONDecodeError is a ValueError).
LoadCampaignDataValueError(doc) ==
    LET r == TryLoad(doc)
    IN  IF r.exc = "none" THEN [raised |-> FALSE, campaign |-> r.campaign]
        ELSE IF r.exc \in {"ValueError", "JSONDecodeError"}
        THEN [raised |-> FALSE, campaign |-> DefaultCampaign]
        ELSE [raised |-> TRUE, campaign |-> DefaultCampaign]

LoadCampaignData(doc) ==
    LET r == TryLoad(doc)
    IN  IF r.exc = "none" THEN [raised |-> FALSE, campaign |-> r.campaign]
        ELSE IF r.exc \in ExceptionClasses
        THEN [raised |-> FALSE, campaign |-> DefaultCampaign]
        ELSE [raised |-> TRUE, campaign |-> DefaultCampaign]

InitCampaign ==
    /\ Idle
    /\ difficulty \in Difficulties
    /\ \E doc \in CampaignFiles :
          call = [ fn |-> "load_campaign_data", doc |-> doc, done |-> FALSE,
                   raised |-> FALSE, campaign |-> DefaultCampaign ]

LoadCampaignDataCall ==
    /\ call # None /\ call.fn = "load_campaign_data" /\ ~call.done
    /\ LET r == LoadCampaignData(call.doc)
       IN  call' = [call EXCEPT !.done = TRUE, !.raised = r.raised,
                                !.campaign = r.campaign]
    /\ Untouched

NextCampaign == LoadCampaignDataCall

SpecCampaign == InitCampaign /\ [][NextCampaign]_vars


(***************************************************************************)
(* Claims                                                                  *)
(***************************************************************************)
InGame == lm # None

Tick == obs.kind = "tick"

\* C1: in a tick in which the jump key is pressed while the player rests on
\* a surface (the vertical pass of the previous tick detected the landing)
\* with jumps_remaining > 0, the jump is accepted: vy becomes jump_strength
\* and jumps_remaining drops by exactly 1 per accepted key.
C1_RestingPlayerCanJump ==
    (Tick /\ obs.landed_before /\ obs.jump_keys >= 1 /\ obs.jr_before > 0)
        => (obs.jumps_accepted >= 1 /\ obs.key_vy = BASE_JUMP)

\* C2: in a tick whose vertical pass lands a falling player, the player leaves
\* the pass with vy = 0, on_ground = TRUE and jumps_remaining = max_jumps.
C2_LandingRefill ==
    (Tick /\ obs.landed)
        => (obs.v_vy = 0 /\ obs.v_on_ground /\ obs.v_jr = obs.v_max)

\* C3: a single-jump player with a jump left that left the ground after its
\* last landing at time T has a jump key accepted while now - T is at most
\* COYOTE_TIME and rejected once now - T exceeds COYOTE_TIME.
C3_CoyoteWindow ==
    (/\ Tick /\ obs.jump_keys >= 1
     /\ obs.max_jumps_before = 1 /\ obs.jr_before > 0
     /\ obs.grounded_before # NoTime /\ ~obs.landed_before)
        => IF now - obs.grounded_before <= COYOTE_TIME
           THEN obs.jumps_accepted >= 1
           ELSE obs.jumps_accepted = 0

C5_DoubleJumpUsable ==
    /\ ("double_jump" \in obs.powerups /\ obs.jr_at_pickup = 0)
           => obs.jr_after_pickup = 1
    /\ (Tick /\ obs.fresh_dj /\ obs.jump_keys >= 1)
           => obs.jumps_accepted >= 1

\* C6: at the end of every loop iteration jumps_remaining <= max_jumps.
C6_JumpsWithinMax ==
    InGame => player.jumps_remaining <= player.max_jumps

\* C7: after every Enemy.update of an enemy with patrol_min <= patrol_max,
\* rect.x lies in [patrol_min, patrol_max].
C7_PatrolBounded ==
    (pe # None /\ peOld # None)
        => (pe.patrol_min <= pe.x /\ pe.x <= pe.patrol_max)

\* C7 witness: an enemy that started right of its interval was brought back.
C7_Witness ==
    /\ pe # None /\ peOld # None
    /\ peOld.x > peOld.patrol_max
    /\ pe.x = pe.patrol_max
    /\ pe.patrol_min < pe.patrol_max

\* rect.x as `rect.x += vx` leaves it, before the bounds are tested.
Advanced(e) == Trunc(Fx(e.x) + e.vx)

\* C8 as stated: an update that leaves rect.x on patrol_max leaves vx
\* negative, one that leaves it on patrol_min leaves vx positive, and vx keeps
\* its sign in an update that leaves rect.x strictly inside.
C8_FlipsOnReachingBound ==
    (pe # None /\ peOld # None)
        => /\ pe.x = pe.patrol_max => pe.vx < 0
           /\ pe.x = pe.patrol_min => pe.vx > 0
           /\ (pe.patrol_min < pe.x /\ pe.x < pe.patrol_max)
                  => pe.vx = peOld.vx

\* C8 as amended: the direction is reversed in the update that would carry
\* rect.x past a bound, which leaves rect.x on that bound and vx pointing
\* inward with magnitude |speed|; every other update, also one that lands
\* exactly on a bound, leaves vx as it was.
C8_FlipsOnPassingBound ==
    (pe # None /\ peOld # None)
        => /\ Advanced(peOld) > peOld.patrol_max
                  => (pe.x = pe.patrol_max /\ pe.vx = -Abs(pe.speed))
           /\ Advanced(peOld) < peOld.patrol_min
                  => (pe.x = pe.patrol_min /\ pe.vx = Abs(pe.speed))
           /\ (/\ peOld.patrol_min <= Advanced(peOld)
               /\ Advanced(peOld) <= peOld.patrol_max)
                  => (pe.x = Advanced(peOld) /\ pe.vx = peOld.vx)

\* C8 witness: an enemy moving right lands exactly on patrol_max and keeps
\* moving right in that update.
C8_Witness ==
    /\ pe # None /\ peOld # None
    /\ peOld.x < peOld.patrol_max
    /\ pe.x = pe.patrol_max
    /\ pe.vx > 0 /\ pe.vx = peOld.vx

\* C9: each present and each powerup of the loaded level is collected (and
\* so counted in the score, or applied) at most once, and an item that was
\* collected is not in its list again while the level stays loaded.
C9_PickupAtMostOnce ==
    InGame =>
        /\ \A i \in DOMAIN hist.presents : hist.presents[i] <= 1
        /\ \A i \in DOMAIN hist.powerups : hist.powerups[i] <= 1
        /\ \A k \in 1..Len(lm.presents) : hist.presents[lm.presents[k].id] = 0
        /\ \A k \in 1..Len(lm.powerups) : hist.powerups[lm.powerups[k].id] = 0

\* C9 witness: a tick in which the player still overlaps the place of a
\* present it collected in an earlier tick.
C9_Witness ==
    /\ InGame /\ Tick /\ state = "PLAYING"
    /\ \E i \in DOMAIN hist.presents :
          /\ hist.presents[i] = 1
          /\ i \notin obs.presents
          /\ CollideRect(PlayerRect(player), Levels[lm.index + 1].presents[i])

\* C10: completed implies score >= total_presents.
C10_GoalGating ==
    InGame => (lm.completed => score >= lm.total_presents)

\* C10 witness: a tick in which the player overlaps the goal with presents
\* missing, and the level is not completed.
C10_Witness ==
    /\ InGame /\ Tick /\ obs.goal_overlap
    /\ score < lm.total_presents
    /\ ~lm.completed

\* C11: once the goal has completed the level and stamped
\* level_complete_time, a later tick that overlaps the goal again (and that
\* does not yet leave the level: the completion delay has not passed) leaves
\* completed true and the stamp as it was.
C11_CompletionStampedOnce ==
    [][ ( /\ InGame /\ state = "PLAYING"
          /\ lm.completed /\ level_complete_time # NoTime
          /\ obs'.kind = "tick" /\ obs'.goal_overlap
          /\ now' - level_complete_time <= LEVEL_COMPLETE_DELAY )
        => ( /\ lm'.completed
             /\ lm'.index = lm.index
             /\ level_complete_time' = level_complete_time ) ]_vars

\* C11 witness: a tick overlaps the goal of a level that an earlier tick
\* completed.
C11_Witness ==
    /\ InGame /\ Tick /\ obs.goal_overlap
    /\ lm.completed
    /\ level_complete_time # NoTime /\ level_complete_time < now

\* C12: after Camera.update on a level at least as large as the viewport,
\* 0 <= camera.x <= level_width - BASE_WIDTH and
\* 0 <= camera.y <= level_height - BASE_HEIGHT, wherever the player is.
C12_CameraClamped ==
    (call # None /\ call.fn = "Camera.update" /\ call.done)
        => /\ 0 <= call.camera.x
           /\ call.camera.x <= call.level_width - BASE_WIDTH
           /\ 0 <= call.camera.y
           /\ call.camera.y <= call.level_height - BASE_HEIGHT

\* C12 witness: the player sticks out over the right and bottom edges of a
\* level larger than the viewport, and the camera stops at the far corner.
C12_Witness ==
    /\ call # None /\ call.fn = "Camera.update" /\ call.done
    /\ call.level_width > BASE_WIDTH /\ call.level_height > BASE_HEIGHT
    /\ call.player_rect.x + call.player_rect.w > call.level_width
    /\ call.player_rect.y + call.player_rect.h > call.level_height
    /\ call.camera.x = call.level_width - BASE_WIDTH
    /\ call.camera.y = call.level_height - BASE_HEIGHT

\* C13: a powerup picked up at time t expires at t + int(base_duration *
\* powerup_mult) (7800 for speed_boost picked up at 1000 on Hard), and
\* update_powerups(now) leaves speed = 1.8 * base_speed when now is before
\* the speed_boost expiry and speed = base_speed when now is at or after it.
C13_ExpiryAndBoost ==
    (call # None /\ call.fn = "powerup")
        => /\ call.applied =>
                /\ call.p.power_until[call.ptype] =
                       call.t + (POWERUP_DURATIONS[call.ptype]
                                   * DIFFICULTY_PRESETS[difficulty].powerup_mult)
                                \div 100
                /\ ( /\ call.t = 1000 /\ call.ptype = "speed_boost"
                      /\ difficulty = "Hard" )
                       => call.p.power_until.speed_boost = 7800
           /\ call.done =>
                /\ call.now < call.p.power_until.speed_boost
                       => call.p.speed = (18 * BASE_SPEED) \div 10
                /\ call.now >= call.p.power_until.speed_boost
                       => call.p.speed = BASE_SPEED

\* C13 witness: the example of the claim, one millisecond before the expiry.
C13_Witness ==
    /\ call # None /\ call.fn = "powerup" /\ call.done
    /\ call.t = 1000 /\ call.ptype = "speed_boost" /\ difficulty = "Hard"
    /\ call.now = 7799
    /\ call.p.speed = 9 * Scale

\* The player's rectangle stands on the top of the ground or of a platform.
OnSurface(p, l) ==
    \E k \in 1..(Len(l.platforms) + 1) :
        LET plat == (<< l.ground >> \o l.platforms)[k]
        IN  /\ p.ry + PLAYER_H = plat.y
            /\ p.rx < plat.x + plat.w
            /\ p.rx + PLAYER_W > plat.x

\* C14: a tick without input (no jump key, no direction key) of a player at
\* rest on a surface (rect.bottom = surface top, vy = 0) ends with vy = 0 and
\* with the player's position (x, y and rect) unchanged.
C14_RestingTickIsStill ==
    [][ ( /\ InGame /\ state = "PLAYING"
          /\ player.vy = 0 /\ OnSurface(player, lm)
          /\ obs'.kind = "tick" /\ obs'.jump_keys = 0 /\ player'.vx = 0
          /\ ~obs'.life_lost /\ lm'.index = lm.index )
        => ( /\ player'.vy = 0
             /\ player'.x = player.x /\ player'.y = player.y
             /\ player'.rx = player.rx /\ player'.ry = player.ry ) ]_vars

\* C15: next_level() returns true exactly when the index is not the last
\* one; then the index has grown by exactly 1 and that level is freshly
\* loaded (not completed, all its presents and powerups there); at the last
\* level it returns false and leaves the manager as it was.  In every state
\* 0 <= index < number of levels.
C15_NextLevel ==
    (call # None /\ call.fn = "next_level")
        => /\ 0 <= call.lm.index /\ call.lm.index < Len(Levels)
           /\ call.done =>
                /\ call.ok <=> (call.before.index # Len(Levels) - 1)
                /\ call.ok =>
                      /\ call.lm.index = call.before.index + 1
                      /\ ~call.lm.completed
                      /\ Len(call.lm.presents) =
                             Len(Levels[call.lm.index + 1].presents)
                      /\ Len(call.lm.powerups) =
                             Len(Levels[call.lm.index + 1].powerups)
                      /\ call.lm.total_presents = Len(call.lm.presents)
                /\ ~call.ok => call.lm = call.before

\* C15 witness: next_level() at the last level, after it was completed.
C15_Witness ==
    /\ call # None /\ call.fn = "next_level" /\ call.done
    /\ ~call.ok
    /\ call.before.index = Len(Levels) - 1
    /\ call.before.completed

\* The campaign of a parsed document: the "campaign" member of the root
\* object when there is one, the root otherwise.
DocCampaign(doc) ==
    IF doc.root = "object" /\ doc.campaign.kind # "missing"
    THEN doc.campaign
    ELSE [kind |-> doc.root, levels |-> doc.levels]

\* The document holds a campaign object with a non-empty "levels" array.
WellFormed(doc) ==
    /\ doc.file = "parsed"
    /\ doc.root = "object"
    /\ DocCampaign(doc).kind = "object"
    /\ DocCampaign(doc).levels.kind = "array"
    /\ DocCampaign(doc).levels.len > 0

\* C16: load_campaign_data raises nothing and returns a campaign with at
\* least one level: the built-in one-level fallback for a missing file,
\* unparsable JSON, a root or campaign that is no object and a missing,
\* non-array or empty "levels"; the document's own campaign otherwise.
C16_LoadCampaignData ==
    (call # None /\ call.fn = "load_campaign_data" /\ call.done)
        => /\ ~call.raised
           /\ call.campaign.nlevels >= 1
           /\ ~WellFormed(call.doc) => call.campaign = DefaultCampaign
           /\ WellFormed(call.doc) =>
                 /\ call.campaign.source = "document"
                 /\ call.campaign.nlevels = DocCampaign(call.doc).levels.len

\* C16 witness: a root that is a JSON array (raw.get fails) gives the
\* fallback campaign.
C16_Witness ==
    /\ call # None /\ call.fn = "load_campaign_data" /\ call.done
    /\ call.doc.file = "parsed" /\ call.doc.root = "array"
    /\ ~call.raised
    /\ call.campaign = DefaultCampaign

\* C17: every PLAYING tick starts with lives >= 1 and takes at most one
\* life; the tick in which lives reaches 0 leaves the state MAIN_MENU and
\* does not respawn the player (no new respawn window is opened).
C17_OutOfLivesEndsGame ==
    [][ (InGame /\ state = "PLAYING" /\ obs'.kind = "tick")
        => ( /\ lives >= 1
             /\ lives - 1 <= lives' /\ lives' <= lives
             /\ state' = "PLAYING" => lives' >= 1
             /\ lives' = 0 =>
                   /\ state' = "MAIN_MENU"
                   /\ player'.hit_invincible_until =
                          player.hit_invincible_until ) ]_vars

\* C17 witness: the tick that took the last life.
C17_Witness ==
    /\ InGame /\ Tick /\ obs.life_lost
    /\ lives = 0
    /\ state = "MAIN_MENU"

\* C18: a tick takes a life only when the player overlaps an enemy while
\* neither now < power_until[invincibility] nor now < hit_invincible_until;
\* while one of the two windows is open, overlapping an enemy changes
\* neither lives nor respawns the player.
C18_LifeLostOnlyWhenVulnerable ==
    [][ (InGame /\ state = "PLAYING" /\ obs'.kind = "tick")
        => ( /\ (lives' # lives \/ obs'.life_lost)
                   => ( /\ obs'.enemy_overlap
                        /\ ~obs'.power_window /\ ~obs'.hit_window )
             /\ (obs'.enemy_overlap /\ (obs'.power_window \/ obs'.hit_window))
                   => (lives' = lives /\ ~obs'.life_lost) ) ]_vars

\* C18 witness: the player overlaps an enemy inside the respawn window.
C18_Witness ==
    /\ InGame /\ Tick
    /\ obs.enemy_overlap /\ obs.hit_window /\ ~obs.power_window
    /\ ~obs.life_lost

\* C19: after a double_jump pickup (a positive duration) jumps_remaining
\* is 2, the max_jumps in effect under the powerup, whatever it was before.
C19_DoubleJumpRefillsToTwo ==
    (InGame /\ Tick /\ "double_jump" \in obs.powerups)
        => obs.jr_after_pickup = 2

\* C20: in a tick that took a life and left lives, the player ends at the
\* level's respawn point with vx = 0, vy = 0, on_ground false and
\* last_ground_time = 0, and is invincible for the RESPAWN_INVINCIBLE_TIME
\* ms that follow; no life is lost less than RESPAWN_INVINCIBLE_TIME ms
\* after the previous one.
C20_RespawnProtects ==
    (InGame /\ Tick /\ obs.life_lost)
        => /\ lives >= 1 =>
                /\ player.rx = lm.player_start[1]
                /\ player.ry = lm.player_start[2]
                /\ player.x = Fx(lm.player_start[1])
                /\ player.y = Fx(lm.player_start[2])
                /\ player.vx = 0 /\ player.vy = 0
                /\ ~player.on_ground /\ player.last_ground_time = 0
                /\ \A t \in {now, now + RESPAWN_INVINCIBLE_TIME - 1} :
                       IsInvincible(player, t)
           /\ obs.prev_lost # NoTime
                => now - obs.prev_lost >= RESPAWN_INVINCIBLE_TIME

(***************************************************************************)
(* Checkpoints and scripted events (SpecStory)                             *)
(***************************************************************************)
\* C21: in a tick in which the player overlaps a checkpoint that is not yet
\* triggered, that checkpoint is the one marked triggered and the level's
\* respawn point becomes its respawn coordinates; no checkpoint is marked
\* more than once per level load, also when checkpoints share an id; and a
\* respawn puts the player at the coordinates of the checkpoint marked last.
C21_CheckpointTriggersItself ==
    InGame =>
        /\ (Tick /\ obs.overlapped # 0)
              => /\ obs.marked = obs.overlapped
                 /\ lm.checkpoints[obs.overlapped].triggered
                 /\ lm.respawn_point = lm.checkpoints[obs.overlapped].respawn
        /\ \A i \in DOMAIN hist.checkpoints : hist.checkpoints[i] <= 1
        /\ (Tick /\ obs.life_lost /\ lives >= 1 /\ hist.last_marked # 0)
              => /\ player.x = Fx(lm.checkpoints[hist.last_marked].respawn[1])
                 /\ player.y = Fx(lm.checkpoints[hist.last_marked].respawn[2])

\* C22: between two loads of a level no event is returned by
\* handle_progress_event more than once, none has its effect applied more
\* than once, and an event returned in a tick was not fired before it.
C22_EventsFireAtMostOnce ==
    InGame =>
        /\ \A i \in DOMAIN hist.fired :
               hist.fired[i] <= 1 /\ hist.applied[i] <= 1
        /\ Tick => \A i \in obs.fired \cup obs.applied :
                       ~obs.events_before[i].fired

\* A second pickup asks again for the events up to a count that the fired
\* event 1 (threshold 1) still matches, and a second checkpoint with the id
\* of the fired event 2 is activated.
C22_Witness ==
    /\ InGame /\ Tick
    /\ \/ obs.count = 2 /\ obs.events_before[1].fired
       \/ obs.marked = 2 /\ obs.events_before[2].fired

\* The values of a sequence.
Range(seq) == { seq[i] : i \in 1..Len(seq) }

\* The effect of event e is there: its platforms are platforms of the
\* level, its powerup lies in the level or was collected in this tick.
EffectDone(e) ==
    /\ e.effect = "spawn_platforms"
          => Range(e.payload.platforms) \subseteq Range(lm.platforms)
    /\ e.effect = "spawn_powerup"
          => \/ \E q \in Range(lm.powerups) : q.rect = e.payload.rect
             \/ e.payload.type \in obs.powerups

\* C23: in a tick with a pickup that raises the count to v, every event
\* presents_collected:N with N <= v that was unfired when the tick began is
\* fired and its effect applied in that tick; in a tick that activates a
\* checkpoint, every unfired event checkpoint_reached:<its id> is fired and
\* its effect applied.
C23_EventsFireWhenDue ==
    (InGame /\ Tick) =>
        \A i \in DOMAIN obs.events_before :
            LET e == obs.events_before[i]
                due == \/ /\ obs.presents # {}
                          /\ e.trigger_type = "presents_collected"
                          /\ \E N \in 0..obs.count :
                                 /\ N < Len(IntLiterals)
                                 /\ e.trigger_value = << IntLiterals[N + 1] >>
                       \/ /\ obs.marked # 0
                          /\ e.trigger_type = "checkpoint_reached"
                          /\ e.trigger_value = << lm.checkpoints[obs.marked].id >>
            IN  (~e.fired /\ due)
                    => /\ i \in obs.fired /\ i \in obs.applied
                       /\ lm.events[i].fired
                       /\ EffectDone(e)

\* One tick activates a checkpoint (event 2 fires) and picks up the first
\* present, which fires the events with thresholds 1 and 0 together.
C23_Witness ==
    /\ InGame /\ Tick
    /\ obs.marked # 0 /\ obs.count = 1
    /\ obs.fired = {1, 2, 3}

\* C24: the platforms of an applied spawn_platforms event are in the
\* level's platform list and in its dynamic-platforms list; every dynamic
\* platform is a platform of the level; and the list handed to the
\* collision passes of a tick holds every platform spawned before the tick.
C24_SpawnedPlatformsCollide ==
    InGame =>
        /\ Range(lm.dynamic_platforms) \subseteq Range(lm.platforms)
        /\ Tick =>
             /\ \A i \in obs.applied :
                    obs.events_before[i].effect = "spawn_platforms"
                        => Range(obs.events_before[i].payload.platforms)
                               \subseteq (Range(lm.platforms)
                                            \cap Range(lm.dynamic_platforms))
             /\ Range(obs.dynamic_before) \subseteq Range(obs.pass_platforms)

\* A jump in a tick after the platform above the player was spawned: the
\* vertical pass stops the rise at its underside.
C24_Witness ==
    /\ InGame /\ Tick
    /\ obs.dynamic_before # << >>
    /\ obs.jumps_accepted = 1 /\ obs.v_vy = 0 /\ ~obs.landed
    /\ player.ry = 35

(***************************************************************************)
(* load_level on its own: a campaign of one level with one enemy, whose    *)
(* start position and defined speed (either sign) are drawn from small     *)
(* sets, loaded under each difficulty.                                     *)
(***************************************************************************)
EnemyLevels ==
    { << [ width |-> 50, height |-> 120,
           player_start |-> <<0, 40>>,
           goal |-> Rect(48, 90, 2, 10),
           ground |-> Rect(0, 100, 50, 20),
           platforms |-> << >>, presents |-> << >>, powerups |-> << >>,
           enemies |-> << <<x, 90, 4, 10, 0, MaxPatrol, sp>> >>,
           checkpoints |-> << >>, events |-> << >>,
           interludes |-> << >> ] >> :
        x \in 0..MaxPatrol, sp \in EnemySpeeds }

InitLoad ==
    /\ state = "MAIN_MENU"
    /\ now = 0
    /\ iterations = 0
    /\ pauses = 0
    /\ difficulty \in AllDifficulties
    /\ lm = None /\ player = None /\ camera = None
    /\ lives = 0 /\ score = 0
    /\ level_complete_time = NoTime
    /\ obs = NoObs
    /\ hist = None
    /\ campaign_data \in EnemyLevels
    /\ previous_state = "MAIN_MENU"
    /\ pe = None /\ peOld = None /\ cj = None
    /\ call = [ fn |-> "load_level", done |-> FALSE, lm |-> None ]

\* LevelManager(campaign_data, settings, 0): __init__ ends in load_level(0).
LoadLevelCall ==
    /\ call # None /\ call.fn = "load_level" /\ ~call.done
    /\ call' = [call EXCEPT
                  !.lm = NewLevelManager(0, Settings.enemy_speed_mult),
                  !.done = TRUE]
    /\ Untouched

NextLoad == LoadLevelCall

SpecLoad == InitLoad /\ [][NextLoad]_vars

Sign(v) == IF v > 0 THEN 1 ELSE IF v < 0 THEN -1 ELSE 0

\* C25: after load_level under a difficulty with enemy-speed multiplier m,
\* each enemy's speed is its defined speed times m, its vx has the sign the
\* constructor gave it (the sign of the defined speed) and |vx| = |speed|,
\* for defined speeds of either sign.
C25_EnemyScaling ==
    (call # None /\ call.fn = "load_level" /\ call.done)
        => \A i \in 1..Len(call.lm.enemies) :
               LET defined == campaign_data[1].enemies[i][7]
                   e == call.lm.enemies[i]
               IN  /\ e.speed * 100 = defined * Settings.enemy_speed_mult
                   /\ Sign(e.vx) = Sign(NewEnemy(0, 0, 4, 10, 0, 0, defined).vx)
                   /\ Abs(e.vx) = Abs(e.speed)

\* C26: a tick calls next_level() at most once, and only with the level
\* completed and more than LEVEL_COMPLETE_DELAY ms after the completion
\* stamp; it is never called twice for the same completion.
C26_TransitionDeferred ==
    (InGame /\ Tick /\ obs.next_level > 0)
        => /\ obs.next_level = 1
           /\ obs.adv_completed
           /\ obs.adv_stamp # NoTime
           /\ now - obs.adv_stamp > LEVEL_COMPLETE_DELAY
           /\ obs.adv_prev # obs.adv_stamp

\* A tick of the level that a deferred transition led to: next_level() was
\* called for the completion stamped at hist.adv_stamp, and not again.
C26_Witness ==
    /\ InGame /\ Tick /\ obs.next_level = 0
    /\ hist.adv_stamp # NoTime
    /\ lm.index > 0 /\ ~lm.completed

(***************************************************************************)
(* clamp_player_to_level on its own: a player as the two collision passes  *)
(* leave it (rect.x = int(x), rect.y = int(y)), up to MaxClampOff pixels   *)
(* on either side of each bound of a level that is as large as the player  *)
(* or MaxClampOff pixels larger.                                           *)
(***************************************************************************)
MaxClampOff == 2

ClampOffsets ==
    { (k * Scale) \div 2 : k \in (-2 * MaxClampOff)..(2 * MaxClampOff) }

InitClamp ==
    /\ Idle
    /\ difficulty \in Difficulties
    /\ \E grow \in {0, MaxClampOff}, ax \in {0, 1}, ay \in {0, 1},
          ox \in ClampOffsets, oy \in ClampOffsets,
          v \in {BASE_JUMP, 0, MAX_FALL}, mj \in {1, 2} :
          LET lw == PLAYER_W + grow
              lh == PLAYER_H + grow
              x == ax * Fx(grow) + ox
              y == ay * Fx(grow) + oy
          IN  call = [ fn |-> "clamp_player_to_level",
                       level_width |-> lw, level_height |-> lh,
                       before |-> [NewPlayer(0, 0) EXCEPT
                                     !.x = x, !.rx = Trunc(x),
                                     !.y = y, !.ry = Trunc(y),
                                     !.vx = BASE_SPEED, !.vy = v,
                                     !.max_jumps = mj,
                                     !.jumps_remaining = 0],
                       player |-> None, done |-> FALSE ]

ClampCall ==
    /\ call # None /\ call.fn = "clamp_player_to_level" /\ ~call.done
    /\ call' = [call EXCEPT
                  !.done = TRUE,
                  !.player = ClampPlayerToLevel(call.before, call.level_width,
                                                call.level_height)]
    /\ Untouched

NextClamp == ClampCall

SpecClamp == InitClamp /\ [][NextClamp]_vars

\* A player with its position blanked out.
NoPosition(p) == [p EXCEPT !.x = 0, !.y = 0, !.rx = 0, !.ry = 0]

\* C27: after clamp_player_to_level on a level at least as large as the
\* player, the rect lies inside the level; if the rect's bottom was below the
\* level, vy is 0 and jumps_remaining is max_jumps and nothing else but the
\* position changed; otherwise nothing but the position changed.
C27_ClampedIntoLevel ==
    (call # None /\ call.fn = "clamp_player_to_level" /\ call.done)
        => LET p == call.before
               q == call.player
           IN  /\ 0 <= q.rx /\ q.rx + PLAYER_W <= call.level_width
               /\ 0 <= q.ry /\ q.ry + PLAYER_H <= call.level_height
               /\ IF p.ry + PLAYER_H > call.level_height
                  THEN /\ q.vy = 0 /\ q.jumps_remaining = q.max_jumps
                       /\ NoPosition(q) =
                              NoPosition([p EXCEPT
                                  !.vy = 0,
                                  !.jumps_remaining = p.max_jumps])
                  ELSE NoPosition(q) = NoPosition(p)

\* A rising player below the bottom bound and left of the left bound, and a
\* falling player above the top bound and right of the right bound.
C27_Witness ==
    /\ call # None /\ call.fn = "clamp_player_to_level" /\ call.done
    /\ \/ /\ call.before.ry + PLAYER_H > call.level_height
          /\ call.before.rx < 0
          /\ call.before.vy < 0 /\ call.before.max_jumps = 2
          /\ call.player.vy = 0 /\ call.player.jumps_remaining = 2
       \/ /\ call.before.ry < 0
          /\ call.before.rx + PLAYER_W > call.level_width
          /\ call.before.vy > 0
          /\ call.player.vy > 0 /\ call.player.jumps_remaining = 0

(***************************************************************************)
(* resolve_horizontal and resolve_vertical on their own: a list of two     *)
(* platforms, each at one of a few places around a player whose rect is    *)
(* near the origin, moving in either direction or not at all.  As in the   *)
(* loop, the rect of the axis that is resolved still holds the position    *)
(* from before the integration step.                                       *)
(***************************************************************************)
MaxPassOff == 1                     \* the player lies up to this many pixels
                                    \* from the origin, in half pixels

PassOffsets == { (k * Scale) \div 2 : k \in (-2 * MaxPassOff)..(2 * MaxPassOff) }

\* Places of a 20 x 20 platform: left of, inside and right of the rect
\* (two depths), above, inside and below it (two depths).
PassPlatforms ==
    { Rect(x, y, 20, 20) : x \in {-15, 10, 30, 35}, y \in {-15, 20, 50, 55} }

InitPass ==
    /\ Idle
    /\ difficulty \in Difficulties
    /\ \E fn \in {"resolve_horizontal", "resolve_vertical"},
          a \in PassPlatforms, b \in PassPlatforms,
          ox \in PassOffsets, oy \in PassOffsets,
          v \in {-BASE_SPEED, 0, BASE_SPEED} :
          LET h == fn = "resolve_horizontal"
          IN  call = [ fn |-> fn,
                       platforms |-> << a, b >>,
                       before |-> [NewPlayer(0, 0) EXCEPT
                                     !.x = ox, !.y = oy,
                                     !.rx = IF h THEN Trunc(ox - v) ELSE Trunc(ox),
                                     !.ry = IF h THEN Trunc(oy) ELSE Trunc(oy - v),
                                     !.vx = v, !.vy = v,
                                     !.max_jumps = 2,
                                     !.jumps_remaining = 1],
                       player |-> None, on_ground |-> FALSE, done |-> FALSE ]

ResolveHorizontalCall ==
    /\ call # None /\ call.fn = "resolve_horizontal" /\ ~call.done
    /\ call' = [call EXCEPT
                  !.done = TRUE,
                  !.player = ResolveHorizontal(call.before, call.platforms)]
    /\ Untouched

ResolveVerticalCall ==
    /\ call # None /\ call.fn = "resolve_vertical" /\ ~call.done
    /\ LET r == ResolveVertical(call.before, call.platforms)
       IN  call' = [call EXCEPT !.done = TRUE, !.player = r.p,
                                !.on_ground = r.on_ground]
    /\ Untouched

NextPass ==
    \/ ResolveHorizontalCall
    \/ ResolveVerticalCall

SpecPass == InitPass /\ [][NextPass]_vars

\* C28: resolve_horizontal changes nothing of the player but x and rect.x:
\* vx, vy, y, rect.y, jumps_remaining, max_jumps, on_ground and
\* last_ground_time are as before, with or without a collision.
C28_HorizontalPositionOnly ==
    (call # None /\ call.fn = "resolve_horizontal" /\ call.done)
        => [call.player EXCEPT !.x = 0, !.rx = 0]
               = [call.before EXCEPT !.x = 0, !.rx = 0]

\* A moving player that the pass pushed out of a platform.
C28_Witness ==
    /\ call # None /\ call.fn = "resolve_horizontal" /\ call.done
    /\ call.before.vx # 0
    /\ call.player.rx # Trunc(call.before.x)
    /\ \E i \in 1..2 :
           CollideRect(Rect(Trunc(call.before.x), call.before.ry,
                            PLAYER_W, PLAYER_H), call.platforms[i])

\* The rect a pass starts from: the stale axis snapped to the float.
Snapped(c) ==
    IF c.fn = "resolve_horizontal"
    THEN Rect(Trunc(c.before.x), c.before.ry, PLAYER_W, PLAYER_H)
    ELSE Rect(c.before.rx, Trunc(c.before.y), PLAYER_W, PLAYER_H)

\* Where one platform puts the rect: against its near face in the direction
\* of motion, or nowhere else if the player does not move on that axis.
DictatedX(r, v, plat) ==
    IF v > 0 THEN plat.x - PLAYER_W ELSE IF v < 0 THEN plat.x + plat.w ELSE r.x

DictatedY(r, v, plat) ==
    IF v > 0 THEN plat.y - PLAYER_H ELSE IF v < 0 THEN plat.y + plat.h ELSE r.y

BothOverlap(c) ==
    /\ CollideRect(Snapped(c), c.platforms[1])
    /\ CollideRect(Snapped(c), c.platforms[2])

\* C29 as stated: when the rect a pass starts from overlaps both platforms
\* of the list, the pass leaves the rect where the first platform of the
\* list puts it, in the horizontal and in the vertical pass.
C29_FirstPlatformWins ==
    (call # None /\ call.done /\ BothOverlap(call))
        => IF call.fn = "resolve_horizontal"
           THEN call.player.rx =
                    DictatedX(Snapped(call), call.before.vx, call.platforms[1])
           ELSE call.player.ry =
                    DictatedY(Snapped(call), call.before.vy, call.platforms[1])

\* C29 amended: in the vertical pass the first platform of the list wins
\* (its correction sets vy to 0, so the second platform moves nothing); in
\* the horizontal pass the second platform moves the rect again if it still
\* overlaps the rect where the first platform put it.
C29_LastOverlappingWinsHorizontally ==
    (call # None /\ call.done /\ BothOverlap(call))
        => IF call.fn = "resolve_horizontal"
           THEN LET r0 == Snapped(call)
                    x1 == DictatedX(r0, call.before.vx, call.platforms[1])
                    r1 == Rect(x1, r0.y, PLAYER_W, PLAYER_H)
                IN  call.player.rx =
                        IF CollideRect(r1, call.platforms[2])
                        THEN DictatedX(r1, call.before.vx, call.platforms[2])
                        ELSE x1
           ELSE call.player.ry =
                    DictatedY(Snapped(call), call.before.vy, call.platforms[1])

\* Both cases: a horizontal pass in which the second platform moved the
\* rect on from where the first put it, and a vertical pass over two
\* overlapping platforms of different heights that landed on the first.
C29_Witness ==
    /\ call # None /\ call.done /\ BothOverlap(call)
    /\ \/ /\ call.fn = "resolve_horizontal"
          /\ call.before.vx # 0
          /\ call.player.rx #
                 DictatedX(Snapped(call), call.before.vx, call.platforms[1])
       \/ /\ call.fn = "resolve_vertical"
          /\ call.before.vy > 0
          /\ call.platforms[1].y > call.platforms[2].y
          /\ call.player.ry = call.platforms[1].y - PLAYER_H

\* C30: in every tick the vx set from a held direction key has magnitude
\* BASE_SPEED * 1.8 if the tick's now is before the speed_boost expiry and
\* BASE_SPEED otherwise, and the jump KEYDOWN events of the tick are judged
\* with max_jumps = 2 if now is before the double_jump expiry and 1
\* otherwise.
C30_PowerupsDerivedBeforeUse ==
    (InGame /\ Tick) =>
        /\ obs.key_vx # 0
              => Abs(obs.key_vx) =
                     IF now < obs.until_before.speed_boost
                     THEN (BASE_SPEED * 18) \div 10 ELSE BASE_SPEED
        /\ obs.jump_keys > 0
              => obs.max_jumps_before =
                     IF now < obs.until_before.double_jump THEN 2 ELSE 1

(***************************************************************************)
(* Clock, camera and respawn                                               *)
(***************************************************************************)
\* C31: every stamp set in a tick is taken from the now sampled at the start
\* of that tick; in particular, after a tick that took a life, left lives and
\* stayed in the level, the respawn window ends at that now +
\* RESPAWN_INVINCIBLE_TIME.
C31_RespawnWindowFromTickNow ==
    (InGame /\ Tick /\ obs.life_lost /\ lives >= 1 /\ obs.next_level = 0)
        => player.hit_invincible_until = now + RESPAWN_INVINCIBLE_TIME

\* C32: in every tick that draws a frame, the camera the frame is drawn with
\* is Camera.update of the player's rectangle as it is drawn, clamped to the
\* level, also in a tick that respawned the player.
C32_CameraFollowsPlayer ==
    (InGame /\ Tick /\ obs.render # None)
        => obs.render.camera =
               CameraUpdate(obs.render.rect, lm.width, lm.height)

\* C33: after a tick that took a life, left lives and stayed in the level,
\* the player is as Player.__init__ makes it apart from the respawn window:
\* no powerup expiry is set, speed is the base speed and jumps_remaining =
\* max_jumps = 1.
C33_RespawnResetsPlayer ==
    (InGame /\ Tick /\ obs.life_lost /\ lives >= 1 /\ obs.next_level = 0)
        => /\ player.power_until = NewPlayer(0, 0).power_until
           /\ player.speed = BASE_SPEED
           /\ player.max_jumps = 1
           /\ player.jumps_remaining = 1

(***************************************************************************)
(* LevelManager on level documents of any shape (level.py 99-139, 189-235, *)
(* 329-334).  A campaign that passed load_campaign_data has a non-empty    *)
(* "levels" array; an entry of it is kept by its JSON kind and, of an      *)
(* object, by the shapes of the members load_level unpacks: "ground", the  *)
(* items of "platforms" and of "enemies", and "player_start".              *)
(***************************************************************************)
WellFormedEntry ==
    [ kind |-> "object", ground |-> "four numbers",
      platform |-> "four numbers", enemy |-> "seven numbers",
      player_start |-> "two numbers" ]

LevelEntries ==
    { [ kind |-> k, ground |-> "missing", platform |-> "missing",
        enemy |-> "missing", player_start |-> "missing" ] :
          k \in JsonKinds \ {"object"} }
      \cup [ kind : {"object"},
             ground : {"missing", "four numbers", "three numbers", "number"},
             platform : {"missing", "four numbers", "three numbers"},
             enemy : {"missing", "seven numbers", "six numbers",
                      "five numbers"},
             player_start : {"missing", "two numbers", "three numbers",
                             "number"} ]

\* load_level(index) on levels[index]: the exception the statements of lines
\* 195-227 raise, in their order, or "none".  No statement of load_level is
\* inside a try.
LoadLevelDoc(levels, index) ==
    LET data == levels[index + 1]
    IN  IF data.kind # "object"
        THEN "AttributeError"                    \* 195: data.get
        ELSE IF data.ground \in {"three numbers", "number"}
        THEN "TypeError"                         \* 199: pygame.Rect(*ground)
        ELSE IF data.platform = "three numbers"
        THEN "TypeError"                         \* 201: pygame.Rect(*p)
        ELSE IF data.enemy = "five numbers"
        THEN "TypeError"                         \* 218: Enemy(*enemy_tuple)
        ELSE IF data.player_start = "three numbers"
        THEN "ValueError"                        \* 227: sx, sy = ...
        ELSE IF data.player_start = "number"
        THEN "TypeError"
        ELSE "none"

\* LevelManager.__init__(campaign_data, settings, index) on a non-empty
\* levels array: the exception that leaves the constructor, and the index.
LevelManagerDoc(levels, index) ==
    LET i == Max(0, Min(index, Len(levels) - 1))
    IN  [ exc |-> LoadLevelDoc(levels, i), index |-> i ]

\* next_level() on a manager built without an exception.
NextLevelDoc(levels, m) ==
    IF m.index + 1 < Len(levels)
    THEN [ exc |-> LoadLevelDoc(levels, m.index + 1), index |-> m.index + 1 ]
    ELSE m

InitManager ==
    /\ Idle
    /\ difficulty \in Difficulties
    /\ \E e \in LevelEntries, index \in 0..1 :
          \E levels \in { <<e>>, <<WellFormedEntry, e>> } :
              call = [ fn |-> "LevelManager", levels |-> levels,
                       index |-> index, built |-> FALSE, nexts |-> 0,
                       manager |-> None ]

LevelManagerCall ==
    /\ call # None /\ call.fn = "LevelManager" /\ ~call.built
    /\ call' = [call EXCEPT
                  !.built = TRUE,
                  !.manager = LevelManagerDoc(call.levels, call.index)]
    /\ Untouched

\* An exception that leaves load_level ends the program: nothing catches it.
NextLevelDocCall ==
    /\ call # None /\ call.fn = "LevelManager" /\ call.built
    /\ call.manager.exc = "none"
    /\ call.manager.index + 1 < Len(call.levels)
    /\ call' = [call EXCEPT
                  !.nexts = call.nexts + 1,
                  !.manager = NextLevelDoc(call.levels, call.manager)]
    /\ Untouched

NextManager ==
    \/ LevelManagerCall
    \/ NextLevelDocCall

SpecManager == InitManager /\ [][NextManager]_vars

\* C34: on a campaign whose non-empty levels array holds a malformed entry,
\* neither building the LevelManager nor loading a level raises: every level
\* load succeeds.
C34_MalformedLevelsNeverRaise ==
    (call # None /\ call.fn = "LevelManager" /\ call.built)
        => call.manager.exc = "none"

(***************************************************************************)
(* The game with several jump KEYDOWN events in one tick: the campaign of  *)
(* Spec played with the jump and right keys only, up to MaxPresses jump    *)
(* presses per tick.                                                       *)
(***************************************************************************)
MaxPresses == 2

PressInputs ==
    [ jumps : 0..MaxPresses, pause : {FALSE},
      left : {FALSE}, right : BOOLEAN, lag : {0} ]

PlayingPresses ==
    /\ state = "PLAYING"
    /\ Sample(FrameMs)
    /\ \E in \in PressInputs : Store(PlayingTick(World, now', in))
    /\ UNCHANGED << campaign_data, previous_state, pauses, difficulty, pe, peOld, cj, call >>

NextPresses ==
    \/ MainMenuStart
    \/ MainMenuLevelSelector
    \/ LevelSelectBack
    \/ LevelSelectStart
    \/ PlayingPresses

SpecPresses == Init /\ [][NextPresses]_vars

\* C35: jumps_remaining is never negative; the KEYDOWN events of a tick
\* perform a jump only if can_jump held before them, and they perform at most
\* as many jumps as there were presses and as jumps_remaining allowed, each
\* taking exactly 1 from jumps_remaining (jumps_accepted is the amount taken).
C35_JumpsRemainingNeverNegative ==
    InGame =>
        /\ player.jumps_remaining >= 0
        /\ Tick => /\ obs.jumps_accepted >= 0
                   /\ obs.jumps_accepted <= obs.jump_keys
                   /\ obs.jumps_accepted <= obs.jr_before
                   /\ obs.jumps_accepted >= 1 => obs.can_jump_before
                   /\ (obs.jump_keys >= 1 /\ obs.can_jump_before)
                          => obs.jumps_accepted >= 1

\* Two presses in one tick, both accepted with a double jump, and two
\* presses of which only the first is accepted.
C35_Witness ==
    /\ InGame /\ Tick /\ obs.jump_keys = 2
    /\ obs.jumps_accepted = 2 /\ obs.jr_before = 2
    /\ player.jumps_remaining = 0

\* C36: from a level load to the next, in every state of the game (PLAYING,
\* PAUSED, story and menu states alike) score + the number of presents left
\* in the level = total_presents; so score >= total_presents, the test of
\* the goal gate, holds exactly when no present is left.
C36_ScorePlusPresentsIsTotal ==
    InGame =>
        /\ score + Len(lm.presents) = lm.total_presents
        /\ (score >= lm.total_presents) <=> (Len(lm.presents) = 0)

\* A present was collected, a checkpoint was marked, a scripted event was
\* applied and the player was respawned, all in the same level load.
C36_Witness ==
    /\ InGame /\ score >= 1
    /\ hist.last_marked # 0
    /\ \E i \in 1..Len(hist.applied) : hist.applied[i] > 0
    /\ hist.lost_at # NoTime /\ lives >= 1

\* C37: in a level whose ground and platforms lie inside the level and whose
\* start position is free, the rectangle the collision resolution of a tick
\* (horizontal pass, vertical pass, clamp) leaves the player with overlaps
\* neither the ground nor a platform.
C37_NoPenetration ==
    (InGame /\ Tick /\ obs.resolved # None)
        => \A i \in 1..Len(obs.pass_platforms) :
               ~CollideRect(obs.resolved, obs.pass_platforms[i])

(***************************************************************************)
(* The pause screen and the options screen opened from it (main.py         *)
(* 280-310), on the campaign of SpecStory.  The options screen changes the *)
(* settings only: the difficulty preset (menu.py OptionsMenu.render) and   *)
(* the key bindings, which the model does not distinguish.  The Options    *)
(* button of the main menu is not used.                                    *)
(***************************************************************************)
PausedOptions ==
    /\ state = "PAUSED"
    /\ \E dt \in DTs : Sample(dt)
    /\ previous_state' = "PAUSED"
    /\ Store(Seen([World EXCEPT !.state = "OPTIONS"], "paused"))
    /\ UNCHANGED << campaign_data, pauses, difficulty, pe, peOld, cj, call >>

\* The difficulty arrows: the preset moves one place to the left or right.
OptionsDifficulty ==
    /\ state = "OPTIONS"
    /\ \E dt \in DTs : Sample(dt)
    /\ difficulty' \in AllDifficulties \ {difficulty}
    /\ Store(Seen(World, "options"))
    /\ UNCHANGED << campaign_data, previous_state, pauses, pe, peOld, cj,
                    call >>

\* A plausible slip: leaving the options screen spawns the player anew.
OptionsBackRespawn ==
    /\ state = "OPTIONS"
    /\ \E dt \in DTs : Sample(dt)
    /\ Store(Seen(SpawnPlayer([World EXCEPT !.state = previous_state]),
                  "options"))
    /\ UNCHANGED << campaign_data, previous_state, pauses, difficulty, pe,
                    peOld, cj, call >>

\* main.py 285-288: Back.
OptionsBack ==
    /\ state = "OPTIONS"
    /\ \E dt \in DTs : Sample(dt)
    /\ Store(Seen([World EXCEPT !.state = previous_state], "options"))
    /\ UNCHANGED << campaign_data, previous_state, pauses, difficulty, pe,
                    peOld, cj, call >>

NextPause ==
    \/ NextStory
    \/ PausedOptions
    \/ OptionsDifficulty
    \/ OptionsBack

SpecPause == InitStory /\ [][NextPause]_vars

\* What the claim lists, compared across one step.
SimulationKept ==
    /\ player'.x = player.x /\ player'.y = player.y
    /\ player'.rx = player.rx /\ player'.ry = player.ry
    /\ player'.vx = player.vx /\ player'.vy = player.vy
    /\ player'.jumps_remaining = player.jumps_remaining
    /\ lm'.enemies = lm.enemies
    /\ lm'.presents = lm.presents
    /\ lm'.powerups = lm.powerups
    /\ lm'.platforms = lm.platforms
    /\ lm'.checkpoints = lm.checkpoints
    /\ lm'.events = lm.events
    /\ lm'.completed = lm.completed
    /\ lives' = lives /\ score' = score

\* C38: a loop iteration in the PAUSED or OPTIONS state changes none of the
\* player's position and velocity, jumps_remaining, the enemies, the level's
\* item lists, checkpoints and events, lives, score and completed; so they
\* are on resume what they were when PAUSED was entered.
C38_PausedFreezesSimulation ==
    [][(state \in {"PAUSED", "OPTIONS"}) => SimulationKept]_vars

\* The game resumed after a visit of the options screen that changed the
\* difficulty, with a present collected and an event applied before.
C38_Witness ==
    /\ state = "PLAYING" /\ obs.kind = "paused"
    /\ previous_state = "PAUSED" /\ difficulty # "Hard"
    /\ score >= 1 /\ Len(lm.platforms) >= 1

\* C39: a PLAYING tick in which the pause key was pressed ends in the PAUSED
\* state, and it collects no present and no powerup, takes no life and does
\* not complete the level.
C39_PauseTickProcessesNothing ==
    (InGame /\ Tick /\ obs.pause_key)
        => /\ state = "PAUSED"
           /\ obs.presents = {}
           /\ obs.powerups = {}
           /\ ~obs.life_lost
           /\ lm.completed = obs.completed_before

(***************************************************************************)
(* The vertical motion of a player with no platform in reach (main.py      *)
(* 331-337, 351-355, 359 and the first statement of resolve_vertical):     *)
(* jump KEYDOWN events, powerup timers, gravity with terminal velocity,    *)
(* y += vy, rect.y = int(y), tick after tick, for a player spawned with or *)
(* without an active double jump.                                          *)
(***************************************************************************)
MaxFallTicks == 30

InitFall ==
    /\ Idle
    /\ difficulty \in Difficulties
    /\ \E dj \in BOOLEAN, t \in {0, GapMs}, y \in {400, 800} :
          \E jr \in 0..(IF dj THEN 2 ELSE 1) :
              call = [ fn |-> "fall", t |-> t, ticks |-> 0,
                       p |-> [UpdatePowerups(
                                [NewPlayer(0, y) EXCEPT
                                   !.power_until.double_jump =
                                       IF dj THEN t + ScaledDuration("double_jump")
                                       ELSE 0], t)
                              EXCEPT !.jumps_remaining = jr],
                       vy |-> 0, dy |-> 0, rect_dy |-> 0,
                       capped |-> FALSE, jumped |-> FALSE ]

FallTick ==
    /\ call # None /\ call.fn = "fall" /\ call.ticks < MaxFallTicks
    /\ \E n \in 0..MaxJumpKeys :
          LET t == call.t + FrameMs
              p1 == JumpKeys(call.p, t, n)
              p2 == GravityStep(UpdatePowerups(p1, t))
              y == p2.y + p2.vy
              p3 == [p2 EXCEPT !.y = y, !.ry = Trunc(y)]
          IN  call' = [call EXCEPT
                         !.t = t, !.ticks = call.ticks + 1, !.p = p3,
                         !.vy = p2.vy,
                         !.dy = p3.y - call.p.y,
                         !.rect_dy = p3.ry - call.p.ry,
                         !.capped = call.capped \/ p1.vy + GRAVITY > MAX_FALL,
                         !.jumped = p1.jumps_remaining < call.p.jumps_remaining]
    /\ Untouched

NextFall == FallTick

SpecFall == InitFall /\ [][NextFall]_vars

\* C40 as stated: in every tick the vy that y is integrated with lies in
\* [jump_strength + GRAVITY, MAX_FALL], and the player moves at most
\* MAX_FALL px down and at most |jump_strength + GRAVITY| px up, the
\* position y and the rectangle alike.
C40_VerticalStepBounded ==
    (call # None /\ call.fn = "fall" /\ call.ticks > 0)
        => /\ BASE_JUMP + GRAVITY <= call.vy /\ call.vy <= MAX_FALL
           /\ BASE_JUMP + GRAVITY <= call.dy /\ call.dy <= MAX_FALL
           /\ BASE_JUMP + GRAVITY <= call.rect_dy * Scale
           /\ call.rect_dy * Scale <= MAX_FALL

\* C40, amended: the bounds hold for vy and for the position y, which moves
\* by exactly vy; the rectangle, whose y is int(y), moves less than one
\* pixel more: at most MAX_FALL px down and less than
\* |jump_strength + GRAVITY| + 1 px up.
C40_VerticalStepBoundedUpToRounding ==
    (call # None /\ call.fn = "fall" /\ call.ticks > 0)
        => /\ BASE_JUMP + GRAVITY <= call.vy /\ call.vy <= MAX_FALL
           /\ call.dy = call.vy
           /\ BASE_JUMP + GRAVITY - Scale < call.rect_dy * Scale
           /\ call.rect_dy * Scale <= MAX_FALL

\* A jump out of a fall at terminal velocity: the tick is integrated with
\* jump_strength + GRAVITY and the rectangle moves 13 px up.
C40_Witness ==
    /\ call # None /\ call.fn = "fall" /\ call.ticks > 0
    /\ call.capped /\ call.jumped
    /\ call.vy = BASE_JUMP + GRAVITY
    /\ call.rect_dy * Scale < BASE_JUMP + GRAVITY

=============================================================================
